---- MODULE Spec2Model ----
(***************************************************************************)
(* OpenEPaperLink (ATC_BLE_OEPL) image upload over BLE: the wire codec of  *)
(* ble_display.py and the BLEDisplay.upload coroutine (device acquisition, *)
(* session setup, transfer loop, teardown), as a state machine whose steps *)
(* run from one suspension point (await) of the coroutine to the next.     *)
(***************************************************************************)
EXTENDS Integers, Sequences, FiniteSets, TLC

(***************************************************************************)
(* Protocol constants (ble_display.py:17-41)                               *)
(***************************************************************************)
CMD_ACK_READY == 2
CMD_TRANSFER_COMPLETE == 3
CMD_START_DATA_TRANSFER == 100
CMD_SEND_BLOCK_PART == 101

RSP_COMMAND_ACK == 99
RSP_PART_ERROR == 196
RSP_PART_ACK == 197
RSP_BLOCK_REQUEST == 198
RSP_UPLOAD_COMPLETE == 199
RSP_DATA_PRESENT == 200
RSP_ERROR == 65535

BLOCK_DATA_SIZE == 4096
BLOCK_PART_DATA_SIZE == 230
PARTS_PER_BLOCK == 18

DEFAULT_DATA_TYPE == 33
DEFAULT_CONNECT_RETRY_DELAY_MS == 1200

\* weather.py main: for attempt in range(3)
UPDATE_ATTEMPTS == 3

\* Arguments the coroutine passes to the transport.
MTU_SIZE == 247
SETTLE_DELAY_MS == 300
SCAN_DURATION_MS == 10000
CONNECT_TIMEOUT_MS == 10000
MAIN_WAIT_TIMEOUT_S == 20
SUB_WAIT_TIMEOUT_S == 10

\* parse_cmd's id for a frame that is absent or shorter than 2 bytes (None).
NoneId == -1

(***************************************************************************)
(* Bounds of the model                                                     *)
(***************************************************************************)
\* Largest connect_retries an upload is started with.
MaxRetries == 2
\* Environment events the device and the radio may produce freely in one
\* upload: notifications delivered, scan misses and failed connects.
MaxEvents == 3

(***************************************************************************)
(* Bytes                                                                   *)
(***************************************************************************)
Min(a, b) == IF a < b THEN a ELSE b

\* Python's s[lo:hi] for 0 <= lo, on a 1-based sequence (clamped to the end).
Slice(s, lo, hi) ==
    IF lo >= Min(hi, Len(s)) THEN << >> ELSE SubSeq(s, lo + 1, Min(hi, Len(s)))

\* b"\x00" * n
Zeros(n) == [i \in 1..n |-> 0]

\* struct.pack little-endian unsigned field of n bytes
RECURSIVE LE(_, _)
LE(v, n) == IF n = 0 THEN << >> ELSE << v % 256 >> \o LE(v \div 256, n - 1)

\* BE16 with the two bytes in little-endian order.
BE16Swapped(v) == << v % 256, (v \div 256) % 256 >>

\* struct.pack(">H", v)
BE16(v) == << (v \div 256) % 256, v % 256 >>

\* sum(data) of a byte sequence; the recursion halves the range.
RECURSIVE SumRange(_, _, _)
SumRange(s, lo, hi) ==
    IF lo > hi THEN 0
    ELSE IF lo = hi THEN s[lo]
    ELSE LET mid == (lo + hi) \div 2
         IN  SumRange(s, lo, mid) + SumRange(s, mid + 1, hi)

ByteSum(data) == SumRange(data, 1, Len(data))

\* sum8 without the & 0xFF.
sum8_unmasked(data) == ByteSum(data)

sum8(data) == ByteSum(data) % 256

sum16(data) == ByteSum(data) % 65536

(***************************************************************************)
(* Wire codec (ble_display.py:44-101)                                      *)
(***************************************************************************)
cmd_packet(cmd_id, payload) == BE16(cmd_id) \o payload

\* An absent notification (Python's None): no byte sequence equals it.
None == << -1 >>

\* parse_cmd reading the id little-endian.
parse_cmd_little_endian(notification) ==
    IF notification = None \/ Len(notification) < 2
    THEN [id |-> NoneId, payload |-> << >>]
    ELSE [id |-> notification[2] * 256 + notification[1],
          payload |-> Slice(notification, 2, Len(notification))]

\* The pair (cmd_id, payload) as a record.
parse_cmd(notification) ==
    IF notification = None \/ Len(notification) < 2
    THEN [id |-> NoneId, payload |-> << >>]
    ELSE [id |-> notification[1] * 256 + notification[2],
          payload |-> Slice(notification, 2, Len(notification))]

\* requested_parts_from_mask reading every bit of the mask, not 18 of them.
requested_parts_every_bit(mask_bytes) ==
    LET requested(part_id) ==
            (mask_bytes[(part_id \div 8) + 1] \div (2 ^ (part_id % 8))) % 2 = 1
        ids == [i \in 1..(8 * Len(mask_bytes)) |-> i - 1]
    IN  SelectSeq(ids, requested)

requested_parts_from_mask(mask_bytes) ==
    LET requested(part_id) ==
            LET byte_index == part_id \div 8
                bit_index == part_id % 8
            IN  /\ byte_index < Len(mask_bytes)
                /\ (mask_bytes[byte_index + 1] \div (2 ^ bit_index)) % 2 = 1
        ids == [i \in 1..PARTS_PER_BLOCK |-> i - 1]
    IN  SelectSeq(ids, requested)

\* build_block_part, lines 88-92: the block's bytes behind their 4-byte header.
block_payload(image_data, block_id) ==
    LET block_start == block_id * BLOCK_DATA_SIZE
    IN  Slice(image_data, block_start, block_start + BLOCK_DATA_SIZE)

\* block_header with the length field counting the header too.
block_header_counting_itself(payload) ==
    LE(Len(payload) + 4, 2) \o LE(sum16(payload), 2)

\* struct.pack("<HH", len(block_payload), sum16(block_payload))
block_header(payload) == LE(Len(payload), 2) \o LE(sum16(payload), 2)

wrapped(image_data, block_id) ==
    LET payload == block_payload(image_data, block_id)
    IN  block_header(payload) \o payload

\* build_block_part stepping through the wrapped block by the frame size instead
\* of the fragment size.
build_block_part_frame_stride(image_data, block_id, part_id) ==
    LET part_start == part_id * (BLOCK_PART_DATA_SIZE + 3)
        part_data == Slice(wrapped(image_data, block_id), part_start,
                           part_start + BLOCK_PART_DATA_SIZE)
        padded == IF Len(part_data) < BLOCK_PART_DATA_SIZE
                  THEN part_data \o Zeros(BLOCK_PART_DATA_SIZE - Len(part_data))
                  ELSE part_data
        block_part_no_crc == << block_id % 256, part_id % 256 >> \o padded
        block_part_crc == sum8(block_part_no_crc)
    IN  << block_part_crc >> \o block_part_no_crc

build_block_part(image_data, block_id, part_id) ==
    LET part_start == part_id * BLOCK_PART_DATA_SIZE
        part_data == Slice(wrapped(image_data, block_id), part_start,
                           part_start + BLOCK_PART_DATA_SIZE)
        padded == IF Len(part_data) < BLOCK_PART_DATA_SIZE
                  THEN part_data \o Zeros(BLOCK_PART_DATA_SIZE - Len(part_data))
                  ELSE part_data
        block_part_no_crc == << block_id % 256, part_id % 256 >> \o padded
        block_part_crc == sum8(block_part_no_crc)
    IN  << block_part_crc >> \o block_part_no_crc

(***************************************************************************)
(* binascii.crc32 (reflected polynomial 0xEDB88320), as the library        *)
(* computes it: one table step per byte.  A 32-bit value is held as its 4  *)
(* little-endian bytes, since TLC's integers are 32-bit signed.            *)
(***************************************************************************)
RECURSIVE Xor(_, _)
Xor(a, b) ==
    IF a = 0 THEN b
    ELSE IF b = 0 THEN a
    ELSE (((a % 2) + (b % 2)) % 2) + 2 * Xor(a \div 2, b \div 2)

Xor32(x, y) == [i \in 1..4 |-> Xor(x[i], y[i])]

\* x >> 1
Shr1(x) == [i \in 1..4 |-> (x[i] \div 2) + (IF i < 4 THEN (x[i + 1] % 2) * 128 ELSE 0)]

\* x >> 8
Shr8(x) == << x[2], x[3], x[4], 0 >>

\* 0xEDB88320 and 0xFFFFFFFF
CrcPoly == << 32, 131, 184, 237 >>
CrcMask == << 255, 255, 255, 255 >>

RECURSIVE CrcBits(_, _)
CrcBits(c, k) ==
    IF k = 0 THEN c
    ELSE CrcBits(IF c[1] % 2 = 1 THEN Xor32(Shr1(c), CrcPoly) ELSE Shr1(c), k - 1)

CrcTable == [n \in 0..255 |-> CrcBits(<< n, 0, 0, 0 >>, 8)]

CrcStep(crc, byte) == Xor32(CrcTable[Xor(crc[1], byte)], Shr8(crc))

\* Left fold of CrcStep over s[lo..hi]; the recursion halves the range, and
\* the left half is evaluated (Len(left) = 4) before the right half starts.
RECURSIVE CrcRange(_, _, _, _)
CrcRange(crc, s, lo, hi) ==
    IF lo > hi THEN crc
    ELSE IF lo = hi THEN CrcStep(crc, s[lo])
    ELSE LET mid == (lo + hi) \div 2
             left == CrcRange(crc, s, lo, mid)
         IN  IF Len(left) = 4 THEN CrcRange(left, s, mid + 1, hi) ELSE left

\* binascii.crc32(data) & 0xFFFFFFFF, as 4 little-endian bytes
crc32(data) == Xor32(CrcRange(CrcMask, data, 1, Len(data)), CrcMask)

\* The announcement with the format "<BQIBH": a single 2-byte field after the
\* data type, 16 bytes in all.
make_avail_data_info_two_reserved(image_data, data_type) ==
    LET crc32_value == crc32(image_data)
        data_size == Len(image_data)
    IN  << 255 >> \o (crc32_value \o Zeros(4)) \o LE(data_size, 4)
            \o << data_type >> \o LE(0, 2)

\* struct.pack("<BQIBBH", 0xFF, crc32_value, data_size, data_type, 0x00, 0x0000):
\* the Q field is the 32-bit CRC zero-extended to 8 bytes.
make_avail_data_info(image_data, data_type) ==
    LET crc32_value == crc32(image_data)
        data_size == Len(image_data)
    IN  << 255 >> \o (crc32_value \o Zeros(4)) \o LE(data_size, 4)
            \o << data_type >> \o << 0 >> \o LE(0, 2)

(***************************************************************************)
(* Images an upload is started with: an empty image, a single short block, *)
(* and a two-block image whose final block holds one byte.                 *)
(***************************************************************************)
ImageLengths == {0, 5, BLOCK_DATA_SIZE + 1}

ImageBytes(n) == [i \in 1..n |-> (i * 37 + (i \div 256) * 11 + 5) % 256]

\* TotalBlocks rounding down and adding one.
TotalBlocksFloorPlusOne(image_data) == Len(image_data) \div BLOCK_DATA_SIZE + 1

\* total_blocks = int(math.ceil(len(image_data) / BLOCK_DATA_SIZE))
TotalBlocks(image_data) ==
    LET n == Len(image_data)
    IN  IF n % BLOCK_DATA_SIZE = 0 THEN n \div BLOCK_DATA_SIZE
        ELSE n \div BLOCK_DATA_SIZE + 1

\* Block ids the device's BLOCK_REQUEST frames carry.
FrameBlockIds == {0, 1}

\* The codec's results on the images above, computed once and looked up by
\* the steps: make_avail_data_info(image_data, data_type) and
\* build_block_part(image_data, block_id, part_id).
AvailTable ==
    [n \in ImageLengths |-> make_avail_data_info(ImageBytes(n), DEFAULT_DATA_TYPE)]

BlockPartTable ==
    [n \in ImageLengths |->
        [b \in FrameBlockIds |->
            [p \in 0..(PARTS_PER_BLOCK - 1) |-> build_block_part(ImageBytes(n), b, p)]]]

(***************************************************************************)
(* Notification frames the device may send                                 *)
(***************************************************************************)
\* Bytes 0..8 of a BLOCK_REQUEST payload, which the host never reads.
OpaquePrefix == << 17, 34, 51, 68, 85, 102, 119, 136, 153 >>

BlockRequestFrame(block_id, type, mask) ==
    BE16(RSP_BLOCK_REQUEST) \o OpaquePrefix \o << block_id, type >> \o mask

MaskAll == << 255, 255, 255, 255, 255, 255 >>      \* every bit, parts 0..17
Mask34 == << 24, 0, 0, 0, 0, 0 >>                  \* parts 3 and 4
MaskNone == << 0, 0, 0, 0, 0, 0 >>

F_COMMAND_ACK == BE16(RSP_COMMAND_ACK)
F_PART_ERROR == BE16(RSP_PART_ERROR)
F_PART_ACK == BE16(RSP_PART_ACK)
F_UPLOAD_COMPLETE == BE16(RSP_UPLOAD_COMPLETE)
F_DATA_PRESENT == BE16(RSP_DATA_PRESENT)
F_ERROR == BE16(RSP_ERROR)
F_UNKNOWN == << 18, 52, 7 >>                       \* id 0x1234, not a response id
F_MALFORMED == << 198 >>                           \* one byte: no id
F_BR0 == BlockRequestFrame(0, DEFAULT_DATA_TYPE, Mask34)
F_BR1 == BlockRequestFrame(1, DEFAULT_DATA_TYPE, Mask34)
F_BR0_ALL == BlockRequestFrame(0, DEFAULT_DATA_TYPE, MaskAll)
F_BR0_NONE == BlockRequestFrame(0, DEFAULT_DATA_TYPE, MaskNone)
\* A BLOCK_REQUEST cut after 16 payload bytes.
F_BR_SHORT == SubSeq(F_BR0, 1, 18)

\* Frames the device may send at any wait, while the event budget lasts.
FreeFrames ==
    { F_COMMAND_ACK, F_PART_ERROR, F_PART_ACK, F_UPLOAD_COMPLETE, F_DATA_PRESENT,
      F_ERROR, F_UNKNOWN, F_MALFORMED, F_BR0, F_BR1, F_BR_SHORT }

Repeat(x, n) == [i \in 1..n |-> x]

\* Whole notification scripts the device may also follow, past the budget.
Scenarios ==
    { << F_BR0_ALL, F_UPLOAD_COMPLETE >>,
      << F_BR0_ALL, F_COMMAND_ACK >> \o Repeat(F_PART_ACK, PARTS_PER_BLOCK)
            \o << F_UPLOAD_COMPLETE >>,
      << F_BR0, F_COMMAND_ACK, F_PART_ERROR, F_PART_ACK, F_PART_ACK,
         F_UPLOAD_COMPLETE >>,
      << F_BR0, F_COMMAND_ACK, F_PART_ACK, F_PART_ERROR, F_PART_ACK,
         F_UPLOAD_COMPLETE >>,
      \* a part refused three times, with other frames in between
      << F_BR0, F_COMMAND_ACK, F_PART_ERROR, F_COMMAND_ACK, F_PART_ERROR, F_UNKNOWN,
         F_PART_ERROR, F_PART_ACK, F_PART_ACK, F_UPLOAD_COMPLETE >>,
      \* a request for no part at all
      << F_BR0_NONE, F_COMMAND_ACK, F_UPLOAD_COMPLETE >>,
      \* a request interrupted by the next one while its first part is exchanged
      << F_BR0, F_COMMAND_ACK, F_BR1, F_COMMAND_ACK, F_PART_ACK, F_PART_ACK,
         F_UPLOAD_COMPLETE >>,
      \* two blocks requested and served one after the other
      << F_BR0, F_COMMAND_ACK, F_PART_ACK, F_PART_ACK, F_BR1, F_COMMAND_ACK,
         F_PART_ACK, F_PART_ACK, F_UPLOAD_COMPLETE >>,
      \* stale acknowledgments before the COMMAND_ACK of a request
      << F_BR0, F_PART_ACK, F_PART_ERROR, F_COMMAND_ACK, F_PART_ACK, F_PART_ACK,
         F_UPLOAD_COMPLETE >>,
      \* the same request made and served twice
      << F_BR0, F_COMMAND_ACK, F_PART_ACK, F_PART_ACK, F_BR0, F_COMMAND_ACK,
         F_PART_ACK, F_PART_ACK, F_UPLOAD_COMPLETE >> }

ScenarioFrames == UNION { { sc[i] : i \in DOMAIN sc } : sc \in Scenarios }

IsPrefix(p, s) == Len(p) <= Len(s) /\ SubSeq(s, 1, Len(p)) = p

(***************************************************************************)
(* State of one BLEDisplay.upload call                                     *)
(***************************************************************************)
VARIABLES
    pc,               \* the await the coroutine is suspended at
    connect_retries,  \* self.connect_retries
    image,            \* len(image_data); image_data is ImageBytes(image)
    total_blocks,     \* computed when upload starts
    avail,            \* the announcement, computed when upload starts
    attempt,          \* loop variable of the acquisition loop
    device,           \* a device handle is held
    conn,             \* conn is not None
    last_error,       \* attempt whose connect failed last, 0 for None
    completed,
    pending_raw,      \* << >> for None, << raw >> for a captured frame
    req_block_id,
    req_parts,
    part_pos,         \* position in req_parts of the part being exchanged
    block_part,       \* the frame being exchanged
    dispatched,       \* frames the main loop has dispatched on, in order
    exc,              \* the exception propagating to the caller, if any
    trace,            \* transport calls made so far by this upload, with their results
    opened,           \* connections opened so far (connect calls that returned)
    closed,           \* connections closed so far (disconnect calls that returned)
    update_attempt,   \* weather.py main: "for attempt in range(3)"
    codec             \* the latest direct call of a codec function: name, arguments, result

vars == << pc, connect_retries, image, total_blocks, avail, attempt, device, conn, last_error,
           completed, pending_raw, req_block_id, req_parts, part_pos,
           block_part, dispatched, exc, trace, opened, closed, update_attempt, codec >>

\* What no step of upload touches: the caller's loop and direct codec calls.
hostVars == << update_attempt, codec >>
linkVars == << opened, closed >>
callVars == << connect_retries, image, total_blocks, avail >>
acqVars == << attempt, device, conn, last_error >>
loopVars == << completed, pending_raw, req_block_id, req_parts, part_pos, block_part,
              dispatched >>

image_data == ImageBytes(image)

\* No codec function has been called directly.
NoCall == [fn |-> "none", args |-> << >>, out |-> << >>]

Ev(op, arg, data) == [op |-> op, arg |-> arg, data |-> data]

NoError == [kind |-> "none", info |-> 0]
Error(kind, info) == [kind |-> kind, info |-> info]

E_CONNECT == "Unable to connect after retries"
E_SERVICE == "Service 0x1337 not found"
E_CHARACTERISTIC == "Characteristic 0x1337 not found"
E_PAYLOAD == "Invalid BlockRequest payload"
E_RANGE == "Device requested out-of-range block"
E_PROTOCOL == "Device returned protocol error (0xFFFF)"
E_TIMEOUT == "TimeoutError"
E_CANCELLED == "CancelledError"

\* Notifications received so far, in order.
Rx(tr) ==
    LET got == SelectSeq(tr, LAMBDA e : e.op = "notified")
    IN  [i \in 1..Len(got) |-> got[i].data]

\* Command packets written so far, in order.
Tx(tr) ==
    LET put == SelectSeq(tr, LAMBDA e : e.op = "write")
    IN  [i \in 1..Len(put) |-> put[i].data]

Count(tr, op) == Cardinality({ i \in DOMAIN tr : tr[i].op = op })

\* Events the environment has produced: notifications, scan misses, failed connects.
Events(tr) ==
    Cardinality({ i \in DOMAIN tr :
        \/ tr[i].op = "notified"
        \/ tr[i].op \in {"scan", "connect"} /\ tr[i].data = << 0 >> })

\* The frames the device may deliver at a wait.
Deliverable(tr) ==
    { raw \in FreeFrames \cup ScenarioFrames :
        \/ raw \in FreeFrames /\ Events(tr) < MaxEvents
        \/ \E sc \in Scenarios : IsPrefix(Append(Rx(tr), raw), sc) }

(***************************************************************************)
(* Control flow shared by the steps                                        *)
(***************************************************************************)
Write(tr, cmd_id, payload) == Append(tr, Ev("write", 0, cmd_packet(cmd_id, payload)))

\* Finally as it would be with the disconnect after the loop instead of in a
\* finally clause: it runs on the normal path only.
FinallyOnSuccessOnly(e, tr) ==
    /\ exc' = e
    /\ IF conn /\ e = [kind |-> "none", info |-> 0]
       THEN /\ trace' = Append(tr, Ev("disconnect", 0, << >>))
            /\ pc' = "disconnecting"
       ELSE /\ trace' = tr
            /\ pc' = "done"

\* The finally clause of upload, entered with exception e (NoError on the
\* normal path): if conn: await conn.disconnect()
Finally(e, tr) ==
    /\ exc' = e
    /\ IF conn
       THEN /\ trace' = Append(tr, Ev("disconnect", 0, << >>))
            /\ pc' = "disconnecting"
       ELSE /\ trace' = tr
            /\ pc' = "done"

\* The head of iteration a of "for attempt in range(1, connect_retries + 1)"
\* holding device handle d, and the code after the loop when it is exhausted.
NextAttempt(a, d, err, tr) ==
    /\ device' = d
    /\ last_error' = err
    /\ UNCHANGED conn
    /\ trace' = tr
    /\ IF a <= connect_retries
       THEN /\ attempt' = a
            /\ pc' = IF d THEN "connect" ELSE "scan"
            /\ UNCHANGED exc
       ELSE /\ UNCHANGED attempt
            /\ pc' = "done"
            /\ exc' = Error(E_CONNECT, err)

\* MoreAttempts with the comparison off by one: a delay after the last attempt too.
MoreAttemptsInclusive(a, retries) == a <= retries

\* attempt < self.connect_retries: a retry delay follows a miss or a failure.
MoreAttempts(a, retries) == a < retries

\* rsp_cmd in (RSP_BLOCK_REQUEST, RSP_UPLOAD_COMPLETE, RSP_DATA_PRESENT)
IsDeferred(rsp_cmd) ==
    rsp_cmd \in { RSP_BLOCK_REQUEST, RSP_UPLOAD_COMPLETE, RSP_DATA_PRESENT }

\* DispatchClass with UPLOAD_COMPLETE treated like the acknowledgments.
DispatchClassUploadCompletePass(rsp_cmd) ==
    IF rsp_cmd = RSP_BLOCK_REQUEST THEN "block_request"
    ELSE IF rsp_cmd = RSP_DATA_PRESENT THEN "complete"
    ELSE IF rsp_cmd \in { RSP_COMMAND_ACK, RSP_UPLOAD_COMPLETE } THEN "pass"
    ELSE IF rsp_cmd \in { RSP_PART_ACK, RSP_PART_ERROR } THEN "pass"
    ELSE IF rsp_cmd = RSP_ERROR THEN "raise"
    ELSE "ignore"

\* DispatchClass without the DATA_PRESENT branch.
DispatchClassNoDataPresent(rsp_cmd) ==
    IF rsp_cmd = RSP_BLOCK_REQUEST THEN "block_request"
    ELSE IF rsp_cmd = RSP_UPLOAD_COMPLETE THEN "complete"
    ELSE IF rsp_cmd = RSP_COMMAND_ACK THEN "pass"
    ELSE IF rsp_cmd \in { RSP_PART_ACK, RSP_PART_ERROR } THEN "pass"
    ELSE IF rsp_cmd = RSP_ERROR THEN "raise"
    ELSE "ignore"

\* DispatchClass failing the transfer on an id it does not know.
DispatchClassUnknownRaises(rsp_cmd) ==
    IF rsp_cmd = RSP_BLOCK_REQUEST THEN "block_request"
    ELSE IF rsp_cmd = RSP_UPLOAD_COMPLETE THEN "complete"
    ELSE IF rsp_cmd = RSP_DATA_PRESENT THEN "complete"
    ELSE IF rsp_cmd = RSP_COMMAND_ACK THEN "pass"
    ELSE IF rsp_cmd \in { RSP_PART_ACK, RSP_PART_ERROR } THEN "pass"
    ELSE "raise"

\* The branch the main loop takes on rsp_cmd.
DispatchClass(rsp_cmd) ==
    IF rsp_cmd = RSP_BLOCK_REQUEST THEN "block_request"
    ELSE IF rsp_cmd = RSP_UPLOAD_COMPLETE THEN "complete"
    ELSE IF rsp_cmd = RSP_DATA_PRESENT THEN "complete"
    ELSE IF rsp_cmd = RSP_COMMAND_ACK THEN "pass"
    ELSE IF rsp_cmd \in { RSP_PART_ACK, RSP_PART_ERROR } THEN "pass"
    ELSE IF rsp_cmd = RSP_ERROR THEN "raise"
    ELSE "ignore"

\* ReadyClass taking a stale PART_ACK for the acknowledgment of ACK_READY.
ReadyClassPartAckProceeds(rsp_cmd) ==
    IF rsp_cmd \in { RSP_COMMAND_ACK, RSP_PART_ACK } THEN "return_none"
    ELSE IF IsDeferred(rsp_cmd) THEN "return_raw"
    ELSE IF rsp_cmd = RSP_PART_ERROR THEN "continue"
    ELSE IF rsp_cmd = RSP_ERROR THEN "raise"
    ELSE "ignore"

\* ReadyClass without the RSP_ERROR check.
ReadyClassErrorIgnored(rsp_cmd) ==
    IF rsp_cmd = RSP_COMMAND_ACK THEN "return_none"
    ELSE IF IsDeferred(rsp_cmd) THEN "return_raw"
    ELSE IF rsp_cmd \in { RSP_PART_ACK, RSP_PART_ERROR } THEN "continue"
    ELSE "ignore"

\* What _wait_ready_ack does on rsp_cmd.
ReadyClass(rsp_cmd) ==
    IF rsp_cmd = RSP_COMMAND_ACK THEN "return_none"
    ELSE IF IsDeferred(rsp_cmd) THEN "return_raw"
    ELSE IF rsp_cmd \in { RSP_PART_ACK, RSP_PART_ERROR } THEN "continue"
    ELSE IF rsp_cmd = RSP_ERROR THEN "raise"
    ELSE "ignore"

\* PartClass resending the part on a COMMAND_ACK as well.
PartClassCommandAckResends(rsp_cmd) ==
    IF rsp_cmd = RSP_PART_ACK THEN "return_none"
    ELSE IF rsp_cmd \in { RSP_PART_ERROR, RSP_COMMAND_ACK } THEN "resend"
    ELSE IF IsDeferred(rsp_cmd) THEN "return_raw"
    ELSE IF rsp_cmd = RSP_ERROR THEN "raise"
    ELSE "ignore"

\* PartClass taking a deferred frame for the acknowledgment of the part.
PartClassDeferredAsAck(rsp_cmd) ==
    IF rsp_cmd = RSP_PART_ACK \/ IsDeferred(rsp_cmd) THEN "return_none"
    ELSE IF rsp_cmd = RSP_PART_ERROR THEN "resend"
    ELSE IF rsp_cmd = RSP_COMMAND_ACK THEN "continue"
    ELSE IF rsp_cmd = RSP_ERROR THEN "raise"
    ELSE "ignore"

\* PartClass taking COMMAND_ACK for the acknowledgment of the part.
PartClassCommandAckAsAck(rsp_cmd) ==
    IF rsp_cmd \in { RSP_PART_ACK, RSP_COMMAND_ACK } THEN "return_none"
    ELSE IF rsp_cmd = RSP_PART_ERROR THEN "resend"
    ELSE IF IsDeferred(rsp_cmd) THEN "return_raw"
    ELSE IF rsp_cmd = RSP_ERROR THEN "raise"
    ELSE "ignore"

\* PartClass taking PART_ERROR for an acknowledgment.
PartClassErrorAsAck(rsp_cmd) ==
    IF rsp_cmd \in { RSP_PART_ACK, RSP_PART_ERROR } THEN "return_none"
    ELSE IF rsp_cmd = RSP_COMMAND_ACK THEN "continue"
    ELSE IF IsDeferred(rsp_cmd) THEN "return_raw"
    ELSE IF rsp_cmd = RSP_ERROR THEN "raise"
    ELSE "ignore"

\* What _send_part_wait_ack does on rsp_cmd.
PartClass(rsp_cmd) ==
    IF rsp_cmd = RSP_PART_ACK THEN "return_none"
    ELSE IF rsp_cmd = RSP_PART_ERROR THEN "resend"
    ELSE IF rsp_cmd = RSP_COMMAND_ACK THEN "continue"
    ELSE IF IsDeferred(rsp_cmd) THEN "return_raw"
    ELSE IF rsp_cmd = RSP_ERROR THEN "raise"
    ELSE "ignore"

\* ShortPayload with the length off by one.
ShortPayloadBelow16(rsp_payload) == Len(rsp_payload) < 16

\* len(rsp_payload) < 17
ShortPayload(rsp_payload) == Len(rsp_payload) < 17

\* OutOfRange without the check: every requested block is served.
OutOfRangeUnchecked(block_id, blocks) == FALSE

\* OutOfRange with the comparison off by one.
OutOfRangeExclusive(block_id, blocks) == block_id > blocks

\* req_block_id >= total_blocks
OutOfRange(block_id, blocks) == block_id >= blocks

\* SendPart passing over the parts that were already written during this upload.
SendPartOnlyUnsent(pos, tr) ==
    LET unsent == { q \in pos..Len(req_parts) :
                      \A i \in DOMAIN tr :
                          tr[i].data # cmd_packet(CMD_SEND_BLOCK_PART,
                                           BlockPartTable[image][req_block_id][req_parts[q]]) }
    IN  IF unsent # {}
        THEN LET first == CHOOSE q \in unsent : \A r \in unsent : q <= r
                 bp == BlockPartTable[image][req_block_id][req_parts[first]]
             IN  /\ part_pos' = first
                 /\ block_part' = bp
                 /\ trace' = Write(tr, CMD_SEND_BLOCK_PART, bp)
                 /\ pc' = "part_wait"
        ELSE /\ UNCHANGED << part_pos, block_part >>
             /\ trace' = tr
             /\ pc' = "main"

\* SendPart building every part from block 0 instead of the requested block.
SendPartOfBlockZero(pos, tr) ==
    IF pos <= Len(req_parts)
    THEN LET bp == BlockPartTable[image][0][req_parts[pos]]
         IN  /\ part_pos' = pos
             /\ block_part' = bp
             /\ trace' = Write(tr, CMD_SEND_BLOCK_PART, bp)
             /\ pc' = "part_wait"
    ELSE /\ UNCHANGED << part_pos, block_part >>
         /\ trace' = tr
         /\ pc' = "main"

\* SendPart stopping one part early.
SendPartSkipsLast(pos, tr) ==
    IF pos < Len(req_parts)
    THEN LET bp == BlockPartTable[image][req_block_id][req_parts[pos]]
         IN  /\ part_pos' = pos
             /\ block_part' = bp
             /\ trace' = Write(tr, CMD_SEND_BLOCK_PART, bp)
             /\ pc' = "part_wait"
    ELSE /\ UNCHANGED << part_pos, block_part >>
         /\ trace' = tr
         /\ pc' = "main"

\* The part at position pos of "for part_id in req_parts": build and send it,
\* or fall out of the loop back to the head of the main loop.
SendPart(pos, tr) ==
    IF pos <= Len(req_parts)
    THEN LET bp == BlockPartTable[image][req_block_id][req_parts[pos]]
         IN  /\ part_pos' = pos
             /\ block_part' = bp
             /\ trace' = Write(tr, CMD_SEND_BLOCK_PART, bp)
             /\ pc' = "part_wait"
    ELSE /\ UNCHANGED << part_pos, block_part >>
         /\ trace' = tr
         /\ pc' = "main"

\* Dispatch with ACK_READY written before the range check instead of after it.
DispatchAckReadyBeforeCheck(raw, tr) ==
    LET rsp_cmd == parse_cmd(raw).id
        rsp_payload == parse_cmd(raw).payload
        class == DispatchClass(rsp_cmd)
    IN  /\ dispatched' = Append(dispatched, raw)
        /\ IF class = "block_request"
           THEN IF ShortPayload(rsp_payload)
                THEN /\ Finally(Error(E_PAYLOAD, 0), tr)
                     /\ UNCHANGED << completed, req_block_id, req_parts >>
                ELSE LET block == rsp_payload[10]
                         parts == requested_parts_from_mask(Slice(rsp_payload, 11, 17))
                     IN  /\ req_block_id' = block
                         /\ req_parts' = parts
                         /\ UNCHANGED completed
                         /\ IF OutOfRange(block, total_blocks)
                            THEN Finally(Error(E_RANGE, block),
                                         Write(tr, CMD_ACK_READY, << >>))
                            ELSE /\ trace' = Write(tr, CMD_ACK_READY, << >>)
                                 /\ pc' = "ready_wait"
                                 /\ UNCHANGED exc
           ELSE IF class = "complete"
           THEN /\ completed' = TRUE
                /\ Finally(NoError, Write(tr, CMD_TRANSFER_COMPLETE, << >>))
                /\ UNCHANGED << req_block_id, req_parts >>
           ELSE IF class = "raise"
           THEN /\ Finally(Error(E_PROTOCOL, 0), tr)
                /\ UNCHANGED << completed, req_block_id, req_parts >>
           ELSE /\ pc' = "main"
                /\ trace' = tr
                /\ UNCHANGED << exc, completed, req_block_id, req_parts >>

\* One dispatch of the main loop on frame raw (upload, lines 261-308).
Dispatch(raw, tr) ==
    LET rsp_cmd == parse_cmd(raw).id
        rsp_payload == parse_cmd(raw).payload
        class == DispatchClass(rsp_cmd)
    IN  /\ dispatched' = Append(dispatched, raw)
        /\ IF class = "block_request"
           THEN IF ShortPayload(rsp_payload)
                THEN /\ Finally(Error(E_PAYLOAD, 0), tr)
                     /\ UNCHANGED << completed, req_block_id, req_parts >>
                ELSE LET block == rsp_payload[10]
                         parts == requested_parts_from_mask(Slice(rsp_payload, 11, 17))
                     IN  /\ req_block_id' = block
                         /\ req_parts' = parts
                         /\ UNCHANGED completed
                         /\ IF OutOfRange(block, total_blocks)
                            THEN Finally(Error(E_RANGE, block), tr)
                            ELSE /\ trace' = Write(tr, CMD_ACK_READY, << >>)
                                 /\ pc' = "ready_wait"
                                 /\ UNCHANGED exc
           ELSE IF class = "complete"
           THEN /\ completed' = TRUE
                /\ Finally(NoError, Write(tr, CMD_TRANSFER_COMPLETE, << >>))
                /\ UNCHANGED << req_block_id, req_parts >>
           ELSE IF class = "raise"
           THEN /\ Finally(Error(E_PROTOCOL, 0), tr)
                /\ UNCHANGED << completed, req_block_id, req_parts >>
           ELSE /\ pc' = "main"
                /\ trace' = tr
                /\ UNCHANGED << exc, completed, req_block_id, req_parts >>

(***************************************************************************)
(* Device acquisition (upload, lines 196-234)                              *)
(***************************************************************************)
StartUpload ==
    /\ pc = "start"
    /\ total_blocks' = TotalBlocks(image_data)
    /\ avail' = AvailTable[image]
    /\ NextAttempt(1, FALSE, 0, trace)
    /\ UNCHANGED << hostVars, linkVars, connect_retries, image, loopVars >>

ScanHit ==
    /\ pc = "scan"
    /\ device' = TRUE
    /\ trace' = Append(trace, Ev("scan", SCAN_DURATION_MS, << 1 >>))
    /\ pc' = "connect"
    /\ UNCHANGED << hostVars, linkVars, callVars, attempt, conn, last_error, loopVars, exc >>

ScanMiss ==
    /\ pc = "scan"
    /\ Events(trace) < MaxEvents
    /\ LET tr == Append(trace, Ev("scan", SCAN_DURATION_MS, << 0 >>))
       IN  IF MoreAttempts(attempt, connect_retries)
           THEN /\ trace' = tr
                /\ pc' = "sleep_miss"
                /\ UNCHANGED << acqVars, exc >>
           ELSE NextAttempt(attempt + 1, FALSE, last_error, tr)
    /\ UNCHANGED << hostVars, linkVars, callVars, loopVars >>

\* SleepAfterMiss scanning again within the attempt that missed.
SleepAfterMissSameAttempt ==
    /\ pc = "sleep_miss"
    /\ NextAttempt(attempt, FALSE, last_error,
                   Append(trace, Ev("sleep", DEFAULT_CONNECT_RETRY_DELAY_MS, << >>)))
    /\ UNCHANGED << hostVars, linkVars, callVars, loopVars >>

SleepAfterMiss ==
    /\ pc = "sleep_miss"
    /\ NextAttempt(attempt + 1, FALSE, last_error,
                   Append(trace, Ev("sleep", DEFAULT_CONNECT_RETRY_DELAY_MS, << >>)))
    /\ UNCHANGED << hostVars, linkVars, callVars, loopVars >>

ConnectOk ==
    /\ pc = "connect"
    /\ conn' = TRUE
    /\ trace' = Append(trace, Ev("connect", CONNECT_TIMEOUT_MS, << 1 >>))
    /\ pc' = "mtu"
    /\ opened' = opened + 1
    /\ UNCHANGED << hostVars, closed, callVars, attempt, device, last_error, loopVars, exc >>

ConnectFail ==
    /\ pc = "connect"
    /\ Events(trace) < MaxEvents
    /\ LET tr == Append(trace, Ev("connect", CONNECT_TIMEOUT_MS, << 0 >>))
       IN  IF MoreAttempts(attempt, connect_retries)
           THEN /\ trace' = tr
                /\ last_error' = attempt
                /\ pc' = "sleep_fail"
                /\ UNCHANGED << attempt, device, conn, exc >>
           ELSE NextAttempt(attempt + 1, device, attempt, tr)
    /\ UNCHANGED << hostVars, linkVars, callVars, loopVars >>

\* SleepAfterFail keeping the device handle: the next attempt connects
\* without scanning.
SleepAfterFailKeepsDevice ==
    /\ pc = "sleep_fail"
    /\ NextAttempt(attempt + 1, TRUE, last_error,
                   Append(trace, Ev("sleep", DEFAULT_CONNECT_RETRY_DELAY_MS, << >>)))
    /\ UNCHANGED << hostVars, linkVars, callVars, loopVars >>

SleepAfterFail ==
    /\ pc = "sleep_fail"
    /\ NextAttempt(attempt + 1, FALSE, last_error,
                   Append(trace, Ev("sleep", DEFAULT_CONNECT_RETRY_DELAY_MS, << >>)))
    /\ UNCHANGED << hostVars, linkVars, callVars, loopVars >>

(***************************************************************************)
(* Session setup (upload, lines 236-251)                                   *)
(***************************************************************************)
ExchangeMtu ==
    /\ pc = "mtu"
    /\ trace' = Append(trace, Ev("exchange_mtu", MTU_SIZE, << >>))
    /\ pc' = "service"
    /\ UNCHANGED << hostVars, linkVars, callVars, acqVars, loopVars, exc >>

ServiceFound ==
    /\ pc = "service"
    /\ trace' = Append(trace, Ev("service", 0, << 1 >>))
    /\ pc' = "characteristic"
    /\ UNCHANGED << hostVars, linkVars, callVars, acqVars, loopVars, exc >>

\* ServiceMissing without the "if not service" check.
ServiceMissingIgnored ==
    /\ pc = "service"
    /\ trace' = Append(trace, Ev("service", 0, << 0 >>))
    /\ pc' = "characteristic"
    /\ UNCHANGED << hostVars, linkVars, callVars, acqVars, loopVars, exc >>

ServiceMissing ==
    /\ pc = "service"
    /\ Finally(Error(E_SERVICE, 0), Append(trace, Ev("service", 0, << 0 >>)))
    /\ UNCHANGED << hostVars, linkVars, callVars, acqVars, loopVars >>

CharacteristicFound ==
    /\ pc = "characteristic"
    /\ trace' = Append(trace, Ev("characteristic", 0, << 1 >>))
    /\ pc' = "subscribe"
    /\ UNCHANGED << hostVars, linkVars, callVars, acqVars, loopVars, exc >>

CharacteristicMissing ==
    /\ pc = "characteristic"
    /\ Finally(Error(E_CHARACTERISTIC, 0), Append(trace, Ev("characteristic", 0, << 0 >>)))
    /\ UNCHANGED << hostVars, linkVars, callVars, acqVars, loopVars >>

Subscribe ==
    /\ pc = "subscribe"
    /\ trace' = Append(trace, Ev("subscribe", 0, << >>))
    /\ pc' = "settle"
    /\ UNCHANGED << hostVars, linkVars, callVars, acqVars, loopVars, exc >>

\* StartTransfer without the settle delay after subscribing.
StartTransferWithoutSettle ==
    /\ pc = "settle"
    /\ trace' = Write(trace, CMD_START_DATA_TRANSFER, avail)
    /\ completed' = FALSE
    /\ pending_raw' = << >>
    /\ pc' = "main"
    /\ UNCHANGED << hostVars, linkVars, callVars, acqVars, req_block_id, req_parts,
                    part_pos, block_part, dispatched, exc >>

\* The settle delay ends: START_DATA_TRANSFER is written and the loop entered.
StartTransfer ==
    /\ pc = "settle"
    /\ trace' = Write(Append(trace, Ev("sleep", SETTLE_DELAY_MS, << >>)),
                      CMD_START_DATA_TRANSFER, avail)
    /\ completed' = FALSE
    /\ pending_raw' = << >>
    /\ pc' = "main"
    /\ UNCHANGED << hostVars, linkVars, callVars, acqVars, req_block_id, req_parts,
                    part_pos, block_part, dispatched, exc >>

(***************************************************************************)
(* Transfer loop (upload, lines 253-311, with _wait_ready_ack and          *)
(* _send_part_wait_ack)                                                    *)
(***************************************************************************)
Notified(tr, timeout_s, raw) == Append(tr, Ev("notified", timeout_s, raw))

\* MainNotified awaiting the transport although a captured frame is pending.
MainNotifiedPastPending ==
    /\ pc = "main"
    /\ \E raw \in Deliverable(trace) :
          Dispatch(raw, Notified(trace, MAIN_WAIT_TIMEOUT_S, raw))
    /\ UNCHANGED << hostVars, linkVars, callVars, acqVars, pending_raw, part_pos, block_part >>

\* raw = await self._wait_notification(ch, timeout_s=20), then the dispatch.
MainNotified ==
    /\ pc = "main"
    /\ pending_raw = << >>
    /\ \E raw \in Deliverable(trace) :
          Dispatch(raw, Notified(trace, MAIN_WAIT_TIMEOUT_S, raw))
    /\ UNCHANGED << hostVars, linkVars, callVars, acqVars, pending_raw, part_pos, block_part >>

\* MainPending forgetting the captured frame: the loop goes back to waiting.
MainPendingDropped ==
    /\ pc = "main"
    /\ pending_raw # << >>
    /\ pending_raw' = << >>
    /\ UNCHANGED << hostVars, linkVars, callVars, acqVars, pc, completed, req_block_id,
                    req_parts, part_pos, block_part, dispatched, exc, trace >>

\* raw = pending_raw; pending_raw = None, then the dispatch.
MainPending ==
    /\ pc = "main"
    /\ pending_raw # << >>
    /\ pending_raw' = << >>
    /\ Dispatch(pending_raw[1], trace)
    /\ UNCHANGED << hostVars, linkVars, callVars, acqVars, part_pos, block_part >>

\* One notification inside _wait_ready_ack, and what upload does on its return.
ReadyNotified ==
    /\ pc = "ready_wait"
    /\ \E raw \in Deliverable(trace) :
          LET tr == Notified(trace, SUB_WAIT_TIMEOUT_S, raw)
              class == ReadyClass(parse_cmd(raw).id)
          IN  IF class = "return_none"
              THEN /\ pending_raw' = << >>
                   /\ SendPart(1, tr)
                   /\ UNCHANGED exc
              ELSE IF class = "return_raw"
              THEN /\ pending_raw' = << raw >>
                   /\ trace' = tr
                   /\ pc' = "main"
                   /\ UNCHANGED << part_pos, block_part, exc >>
              ELSE IF class = "raise"
              THEN /\ Finally(Error(E_PROTOCOL, 0), tr)
                   /\ UNCHANGED << pending_raw, part_pos, block_part >>
              ELSE /\ trace' = tr
                   /\ UNCHANGED << pc, pending_raw, part_pos, block_part, exc >>
    /\ UNCHANGED << hostVars, linkVars, callVars, acqVars, completed, req_block_id, req_parts, dispatched >>

\* One notification inside _send_part_wait_ack, and what upload does on its return.
PartNotified ==
    /\ pc = "part_wait"
    /\ \E raw \in Deliverable(trace) :
          LET tr == Notified(trace, SUB_WAIT_TIMEOUT_S, raw)
              class == PartClass(parse_cmd(raw).id)
          IN  IF class = "return_none"
              THEN /\ pending_raw' = << >>
                   /\ SendPart(part_pos + 1, tr)
                   /\ UNCHANGED exc
              ELSE IF class = "resend"
              THEN /\ trace' = Write(tr, CMD_SEND_BLOCK_PART, block_part)
                   /\ UNCHANGED << pc, pending_raw, part_pos, block_part, exc >>
              ELSE IF class = "return_raw"
              THEN /\ pending_raw' = << raw >>
                   /\ trace' = tr
                   /\ pc' = "main"
                   /\ UNCHANGED << part_pos, block_part, exc >>
              ELSE IF class = "raise"
              THEN /\ Finally(Error(E_PROTOCOL, 0), tr)
                   /\ UNCHANGED << pending_raw, part_pos, block_part >>
              ELSE /\ trace' = tr
                   /\ UNCHANGED << pc, pending_raw, part_pos, block_part, exc >>
    /\ UNCHANGED << hostVars, linkVars, callVars, acqVars, completed, req_block_id, req_parts, dispatched >>

\* The coroutine is suspended in _wait_notification.
Waiting ==
    \/ pc = "main" /\ pending_raw = << >>
    \/ pc \in { "ready_wait", "part_wait" }

\* WaitTimeout swallowed: the wait is simply started again.
WaitTimeoutWaitsAgain ==
    /\ Waiting
    /\ UNCHANGED vars

\* WaitTimeout with a part resent when its acknowledgment times out.
WaitTimeoutResendsPart ==
    /\ Waiting
    /\ LET tr == Append(trace, Ev("timeout",
                                  IF pc = "main" THEN MAIN_WAIT_TIMEOUT_S
                                                 ELSE SUB_WAIT_TIMEOUT_S, << >>))
       IN  IF pc = "part_wait"
           THEN /\ trace' = Write(tr, CMD_SEND_BLOCK_PART, block_part)
                /\ UNCHANGED << pc, exc >>
           ELSE Finally(Error(E_TIMEOUT, 0), tr)
    /\ UNCHANGED << hostVars, linkVars, callVars, acqVars, loopVars >>

\* asyncio.wait_for raises TimeoutError out of _wait_notification.
WaitTimeout ==
    /\ Waiting
    /\ Finally(Error(E_TIMEOUT, 0),
               Append(trace, Ev("timeout",
                                IF pc = "main" THEN MAIN_WAIT_TIMEOUT_S
                                               ELSE SUB_WAIT_TIMEOUT_S, << >>)))
    /\ UNCHANGED << hostVars, linkVars, callVars, acqVars, loopVars >>

(***************************************************************************)
(* Teardown and cancellation                                               *)
(***************************************************************************)
\* conn.disconnect() returns; the result or the exception reaches the caller.
Disconnected ==
    /\ pc = "disconnecting"
    /\ pc' = "done"
    /\ closed' = closed + 1
    /\ UNCHANGED << hostVars, opened, callVars, acqVars, loopVars, exc, trace >>

InTry ==
    \/ pc \in { "mtu", "service", "characteristic", "subscribe", "settle",
                "ready_wait", "part_wait" }
    \/ pc = "main" /\ pending_raw = << >>

\* The task is cancelled: CancelledError is raised at the await it is suspended at.
Cancel ==
    /\ \/ /\ pc \in { "scan", "sleep_miss", "connect", "sleep_fail" }
          /\ pc' = "done"
          /\ exc' = Error(E_CANCELLED, 0)
          /\ UNCHANGED trace
       \/ /\ InTry
          /\ Finally(Error(E_CANCELLED, 0), trace)
       \/ /\ pc = "disconnecting"
          /\ pc' = "done"
          /\ exc' = Error(E_CANCELLED, 0)
          /\ UNCHANGED trace
    /\ UNCHANGED << hostVars, linkVars, callVars, acqVars, loopVars >>

(***************************************************************************)
(* Specification                                                           *)
(***************************************************************************)
Init ==
    /\ pc = "start"
    /\ connect_retries \in 0..MaxRetries
    /\ image \in ImageLengths
    /\ total_blocks = 0
    /\ avail = << >>
    /\ attempt = 0
    /\ device = FALSE
    /\ conn = FALSE
    /\ last_error = 0
    /\ completed = FALSE
    /\ pending_raw = << >>
    /\ req_block_id = 0
    /\ req_parts = << >>
    /\ part_pos = 0
    /\ block_part = << >>
    /\ dispatched = << >>
    /\ exc = NoError
    /\ trace = << >>
    /\ opened = 0
    /\ closed = 0
    /\ update_attempt = 0
    /\ codec = NoCall

\* upload as the repository runs it: nothing cancels the task.
Next ==
    \/ StartUpload
    \/ ScanHit
    \/ ScanMiss
    \/ SleepAfterMiss
    \/ ConnectOk
    \/ ConnectFail
    \/ SleepAfterFail
    \/ ExchangeMtu
    \/ ServiceFound
    \/ ServiceMissing
    \/ CharacteristicFound
    \/ CharacteristicMissing
    \/ Subscribe
    \/ StartTransfer
    \/ MainNotified
    \/ MainPending
    \/ ReadyNotified
    \/ PartNotified
    \/ WaitTimeout
    \/ Disconnected

Spec == Init /\ [][Next]_vars

\* upload run as a task that may be cancelled at any await.
NextCancel ==
    \/ Next
    \/ Cancel

SpecCancel == Init /\ [][NextCancel]_vars

(***************************************************************************)
(* The scheduling loop of weather.py (main, lines 892-899): a failed       *)
(* update cycle is tried again, up to UPDATE_ATTEMPTS times in all.        *)
(***************************************************************************)
\* RetryUpdateCycle with upload's teardown not awaited before the next attempt.
RetryWithoutAwaitingTeardown ==
    /\ pc \in { "disconnecting", "done" }
    /\ exc # NoError
    /\ update_attempt + 1 < UPDATE_ATTEMPTS
    /\ update_attempt' = update_attempt + 1
    /\ pc' = "start"
    /\ total_blocks' = 0
    /\ avail' = << >>
    /\ attempt' = 0
    /\ device' = FALSE
    /\ conn' = FALSE
    /\ last_error' = 0
    /\ completed' = FALSE
    /\ pending_raw' = << >>
    /\ req_block_id' = 0
    /\ req_parts' = << >>
    /\ part_pos' = 0
    /\ block_part' = << >>
    /\ dispatched' = << >>
    /\ exc' = NoError
    /\ trace' = << >>
    /\ UNCHANGED << connect_retries, image, linkVars, codec >>

\* RetryUpdateCycle entered whatever the outcome of the attempt.
RetryAfterAnyOutcome ==
    /\ pc = "done"
    /\ update_attempt + 1 < UPDATE_ATTEMPTS
    /\ update_attempt' = update_attempt + 1
    /\ pc' = "start"
    /\ total_blocks' = 0
    /\ avail' = << >>
    /\ attempt' = 0
    /\ device' = FALSE
    /\ conn' = FALSE
    /\ last_error' = 0
    /\ completed' = FALSE
    /\ pending_raw' = << >>
    /\ req_block_id' = 0
    /\ req_parts' = << >>
    /\ part_pos' = 0
    /\ block_part' = << >>
    /\ dispatched' = << >>
    /\ exc' = NoError
    /\ trace' = << >>
    /\ UNCHANGED << connect_retries, image, linkVars, codec >>

\* run_update_cycle has raised what upload raised: main catches it, sleeps,
\* and the next iteration awaits a new BLEDisplay(...).upload(image_data).
RetryUpdateCycle ==
    /\ pc = "done"
    /\ exc # NoError
    /\ update_attempt + 1 < UPDATE_ATTEMPTS
    /\ update_attempt' = update_attempt + 1
    /\ pc' = "start"
    /\ total_blocks' = 0
    /\ avail' = << >>
    /\ attempt' = 0
    /\ device' = FALSE
    /\ conn' = FALSE
    /\ last_error' = 0
    /\ completed' = FALSE
    /\ pending_raw' = << >>
    /\ req_block_id' = 0
    /\ req_parts' = << >>
    /\ part_pos' = 0
    /\ block_part' = << >>
    /\ dispatched' = << >>
    /\ exc' = NoError
    /\ trace' = << >>
    /\ UNCHANGED << connect_retries, image, linkVars, codec >>

\* The for loop is left, by "break" after the attempt that succeeded or by
\* exhaustion after the third failure, and main goes on to compute and sleep
\* the time to the next slot.
SleepUntilNextSlot ==
    /\ pc = "done"
    /\ \/ exc = NoError
       \/ update_attempt + 1 = UPDATE_ATTEMPTS
    /\ pc' = "next_slot"
    /\ UNCHANGED << connect_retries, image, total_blocks, avail, attempt, device, conn,
                    last_error, completed, pending_raw, req_block_id, req_parts,
                    part_pos, block_part, dispatched, exc, trace, linkVars, hostVars >>

NextLoop ==
    \/ Next
    \/ RetryUpdateCycle
    \/ SleepUntilNextSlot

SpecLoop == Init /\ [][NextLoop]_vars

(***************************************************************************)
(* The codec functions called directly, on inputs drawn from small sets    *)
(***************************************************************************)
EdgeBytes == { 0, 1, 99, 127, 128, 198, 255 }

\* Command ids across [0, 65535]: every pairing of the edge bytes.
CodecIds == { hi * 256 + lo : hi \in EdgeBytes, lo \in EdgeBytes }

CodecPayloads ==
    { << >>, << 0 >>, << 255 >>, << 0, 0 >>, << 1, 2, 3 >>,
      Slice(F_BR0_ALL, 2, Len(F_BR0_ALL)) }

\* Notifications: absent, empty, one byte, two bytes and longer.
CodecFrames ==
    { None, << >>, << 0 >>, << 198 >>, << 255 >>,
      << 0, 0 >>, << 0, 1 >>, << 1, 0 >>, << 255, 255 >>, << 0, 99, 0 >>,
      << 1, 2, 3, 4 >> } \cup FreeFrames

\* One call is made, from the state in which none has been made.
Call(fn, args, out) ==
    /\ codec = NoCall
    /\ codec' = [fn |-> fn, args |-> args, out |-> out]
    /\ UNCHANGED << pc, connect_retries, image, total_blocks, avail, attempt, device, conn,
                    last_error, completed, pending_raw, req_block_id, req_parts,
                    part_pos, block_part, dispatched, exc, trace, opened, closed,
                    update_attempt >>

\* parse_cmd(cmd_packet(cmd_id, payload))
CallCmdPacketParseCmd ==
    \E cmd_id \in CodecIds, payload \in CodecPayloads :
        Call("parse_cmd(cmd_packet)", << cmd_id, payload >>,
             parse_cmd(cmd_packet(cmd_id, payload)))

\* parse_cmd(notification)
CallParseCmd ==
    \E notification \in CodecFrames :
        Call("parse_cmd", << notification >>, parse_cmd(notification))

\* Image lengths around the block size, and a four-block image.
CodecLengths ==
    { 0, 1, 5, BLOCK_DATA_SIZE - 1, BLOCK_DATA_SIZE, BLOCK_DATA_SIZE + 1,
      3 * BLOCK_DATA_SIZE + 1 }

\* Block ids inside and past the images, and one past a byte.
CodecBlockIds == { 0, 1, 3, 256 }

\* wrapped = block_header + block_payload (build_block_part, lines 88-92)
CallWrapped ==
    \E n \in CodecLengths, block_id \in CodecBlockIds :
        Call("wrapped", << n, block_id >>, wrapped(ImageBytes(n), block_id))

\* build_block_part(image_data, block_id, part_id)
CallBuildBlockPart ==
    \E n \in CodecLengths, block_id \in CodecBlockIds,
       part_id \in 0..(PARTS_PER_BLOCK - 1) :
        Call("build_block_part", << n, block_id, part_id >>,
             build_block_part(ImageBytes(n), block_id, part_id))

\* build_block_part(image_data, block_id, part_id) for every block of the
\* image and every part of the block, as a transfer of the whole image calls it.
CallBuildAllBlockParts ==
    \E n \in CodecLengths :
        Call("build_block_part*", << n >>,
             [b \in 1..TotalBlocks(ImageBytes(n)) |->
                 [p \in 1..PARTS_PER_BLOCK |-> build_block_part(ImageBytes(n), b - 1, p - 1)]])

\* Masks of 0 to 3 bytes over a few byte values, and 6-byte masks.
CodecMasks ==
    LET bytes == { 0, 1, 5, 128, 255 }
    IN  { << >> }
        \cup { << a >> : a \in bytes }
        \cup { << a, b >> : a \in bytes, b \in bytes }
        \cup { << a, b, c >> : a \in bytes, b \in bytes, c \in { 0, 1, 2, 3, 4, 252, 255 } }
        \cup { MaskAll, Mask34, MaskNone, << 5, 0, 0, 0, 0, 0 >>,
               << 0, 0, 252, 255, 255, 255 >>, << 0, 0, 2, 0, 0, 0 >> }

\* requested_parts_from_mask(mask_bytes)
CallRequestedPartsFromMask ==
    \E mask_bytes \in CodecMasks :
        Call("requested_parts_from_mask", << mask_bytes >>,
             requested_parts_from_mask(mask_bytes))

\* total_blocks = int(math.ceil(len(image_data) / BLOCK_DATA_SIZE))
CallTotalBlocks ==
    \E n \in CodecLengths \ { 5 } :
        Call("total_blocks", << n >>, TotalBlocks(ImageBytes(n)))

AvailLengths == { 0, 1, 5, BLOCK_DATA_SIZE, BLOCK_DATA_SIZE + 1 }

DataTypes == { 0, DEFAULT_DATA_TYPE, 255 }

\* make_avail_data_info(image_data, data_type)
CallMakeAvailDataInfo ==
    \E n \in AvailLengths, data_type \in DataTypes :
        Call("make_avail_data_info", << n, data_type >>,
             make_avail_data_info(ImageBytes(n), data_type))

CodecInit ==
    /\ Init
    /\ connect_retries = 0
    /\ image = 0

CodecNext ==
    \/ CallCmdPacketParseCmd
    \/ CallParseCmd
    \/ CallWrapped
    \/ CallBuildBlockPart
    \/ CallRequestedPartsFromMask
    \/ CallTotalBlocks
    \/ CallMakeAvailDataInfo
    \/ CallBuildAllBlockParts

SpecCodec == CodecInit /\ [][CodecNext]_vars

(***************************************************************************)
(* Vocabulary of the properties                                            *)
(***************************************************************************)
IdOf(packet) == packet[1] * 256 + packet[2]

IsWrite(e, cmd_id) == e.op = "write" /\ IdOf(e.data) = cmd_id

IsNote(e, rsp_id) == e.op = "notified" /\ parse_cmd(e.data).id = rsp_id

CountCmd(cmd_id) == Cardinality({ i \in DOMAIN trace : IsWrite(trace[i], cmd_id) })

Last(seq) == seq[Len(seq)]

\* A connect call has succeeded.
Opened == \E i \in DOMAIN trace : trace[i].op = "connect" /\ trace[i].data = << 1 >>

\* upload is over (the result or the exception is with the caller) / being torn down.
Over == pc = "done"
Ending == pc \in { "disconnecting", "done" }

\* The run was aborted by the frame or timeout at position i: disconnect is the
\* only transport call after it.
AbortedAt(i) ==
    /\ i = Len(trace) - 1
    /\ Last(trace).op = "disconnect"
    /\ Ending

P_START == cmd_packet(CMD_START_DATA_TRANSFER, avail)
P_ACK_READY == cmd_packet(CMD_ACK_READY, << >>)
P_TRANSFER_COMPLETE == cmd_packet(CMD_TRANSFER_COMPLETE, << >>)

(***************************************************************************)
(* C1: once a connection is opened, conn.disconnect() is called exactly    *)
(* once on every exit path of upload, cancellation at any await included,  *)
(* and before the result or the error reaches the caller: never twice, and *)
(* once by the time upload is over.  (Checked under SpecCancel.)           *)
(***************************************************************************)
C1_DisconnectExactlyOnce ==
    /\ Count(trace, "disconnect") <= 1
    /\ (Over /\ Opened) => Count(trace, "disconnect") = 1

\* A run cancelled while it waited for the acknowledgment of a block part.
C1_Witness ==
    /\ Over
    /\ Opened
    /\ exc.kind = E_CANCELLED
    /\ Len(trace) >= 2
    /\ Last(trace).op = "disconnect"
    /\ IsWrite(trace[Len(trace) - 1], CMD_SEND_BLOCK_PART)

(***************************************************************************)
(* C2 as stated: the script BLOCK_REQUEST(block 0, all 18 parts),          *)
(* UPLOAD_COMPLETE makes upload send exactly 18 SEND_BLOCK_PART commands   *)
(* followed by TRANSFER_COMPLETE and return success.                       *)
(***************************************************************************)
C2_Original ==
    ( /\ Over
      /\ total_blocks >= 1
      /\ Rx(trace) = << F_BR0_ALL, F_UPLOAD_COMPLETE >>
      /\ Count(trace, "timeout") = 0 )
    => /\ CountCmd(CMD_SEND_BLOCK_PART) = PARTS_PER_BLOCK
       /\ Last(Tx(trace)) = P_TRANSFER_COMPLETE
       /\ exc = NoError

AckedScript ==
    << F_BR0_ALL, F_COMMAND_ACK >> \o Repeat(F_PART_ACK, PARTS_PER_BLOCK)
        \o << F_UPLOAD_COMPLETE >>

(***************************************************************************)
(* C2 amended: the script BLOCK_REQUEST(block 0, all 18 parts),            *)
(* COMMAND_ACK, 18 times PART_ACK, UPLOAD_COMPLETE makes upload write      *)
(* START_DATA_TRANSFER, ACK_READY, exactly 18 SEND_BLOCK_PART commands     *)
(* (parts 0..17 of block 0, in order) and then TRANSFER_COMPLETE, and      *)
(* return success.                                                         *)
(***************************************************************************)
C2_AckedScriptSendsAllParts ==
    ( /\ Over
      /\ total_blocks >= 1
      /\ Rx(trace) = AckedScript )
    => /\ Tx(trace) =
            << P_START, P_ACK_READY >>
            \o [p \in 1..PARTS_PER_BLOCK |->
                   cmd_packet(CMD_SEND_BLOCK_PART, build_block_part(image_data, 0, p - 1))]
            \o << P_TRANSFER_COMPLETE >>
       /\ exc = NoError

C2_Witness ==
    /\ Over
    /\ total_blocks >= 1
    /\ Rx(trace) = AckedScript
    /\ CountCmd(CMD_SEND_BLOCK_PART) = PARTS_PER_BLOCK
    /\ exc = NoError

(***************************************************************************)
(* C3: if the first notification after START_DATA_TRANSFER is              *)
(* DATA_PRESENT, upload writes TRANSFER_COMPLETE and nothing else (no      *)
(* ACK_READY, no SEND_BLOCK_PART), reads no further notification, and      *)
(* returns success.                                                        *)
(***************************************************************************)
C3_DataPresentFirst ==
    (Rx(trace) # << >> /\ parse_cmd(Rx(trace)[1]).id = RSP_DATA_PRESENT)
    => /\ Tx(trace) = << P_START, P_TRANSFER_COMPLETE >>
       /\ Len(Rx(trace)) = 1
       /\ Ending
       /\ exc = NoError

C3_Witness ==
    /\ Over
    /\ Rx(trace) = << F_DATA_PRESENT >>
    /\ Last(Tx(trace)) = P_TRANSFER_COMPLETE
    /\ exc = NoError

\* Payload of the BLOCK_REQUEST being served when trace[i] was written: the
\* latest one notified before position i.
ServedRequest(i) ==
    LET j == CHOOSE j \in 1..(i - 1) :
                 /\ IsNote(trace[j], RSP_BLOCK_REQUEST)
                 /\ \A k \in (j + 1)..(i - 1) : ~IsNote(trace[k], RSP_BLOCK_REQUEST)
    IN  parse_cmd(trace[j].data).payload

\* Block id and part id carried by a SEND_BLOCK_PART packet.
BlockOf(packet) == packet[4]
PartOf(packet) == packet[5]

\* trace[i] is the first transmission of a part that the device answers with
\* PART_ERROR once and then with PART_ACK.
ErrorThenAck(i) ==
    /\ IsWrite(trace[i], CMD_SEND_BLOCK_PART)
    /\ i > 1
    /\ ~IsNote(trace[i - 1], RSP_PART_ERROR)
    /\ i + 3 <= Len(trace)
    /\ IsNote(trace[i + 1], RSP_PART_ERROR)
    /\ IsNote(trace[i + 3], RSP_PART_ACK)

(***************************************************************************)
(* C4: when the device answers a part with PART_ERROR once and then        *)
(* PART_ACK, that part is sent exactly twice, the second packet identical  *)
(* to the first, and the next thing written is the next requested part of  *)
(* the block (nothing is written if it was the last requested part).       *)
(***************************************************************************)
C4_PartErrorResendsSamePart ==
    \A i \in DOMAIN trace :
        ErrorThenAck(i) =>
            LET req == ServedRequest(i)
                parts == requested_parts_from_mask(Slice(req, 11, 17))
                rest == SelectSeq(parts, LAMBDA p : p > PartOf(trace[i].data))
            IN  /\ trace[i + 2] = trace[i]
                /\ IF rest = << >>
                   THEN Len(trace) = i + 3 \/ trace[i + 4].op # "write"
                   ELSE /\ Len(trace) >= i + 4
                        /\ trace[i + 4] =
                             Ev("write", 0,
                                cmd_packet(CMD_SEND_BLOCK_PART,
                                    build_block_part(image_data, req[10], rest[1])))

\* Part 3 is refused once, resent, acknowledged, and part 4 follows.
C4_Witness ==
    \E i \in DOMAIN trace :
        /\ ErrorThenAck(i)
        /\ PartOf(trace[i].data) = 3
        /\ Len(trace) >= i + 4
        /\ IsWrite(trace[i + 2], CMD_SEND_BLOCK_PART)
        /\ IsWrite(trace[i + 4], CMD_SEND_BLOCK_PART)
        /\ PartOf(trace[i + 4].data) = 4

\* The transport calls of an acquisition in which every scan finds the device
\* and every connect fails, from attempt a on.
RECURSIVE AllFailTrace(_, _)
AllFailTrace(a, retries) ==
    IF a > retries THEN << >>
    ELSE << Ev("scan", SCAN_DURATION_MS, << 1 >>),
            Ev("connect", CONNECT_TIMEOUT_MS, << 0 >>) >>
         \o (IF a < retries
             THEN << Ev("sleep", DEFAULT_CONNECT_RETRY_DELAY_MS, << >>) >>
             ELSE << >>)
         \o AllFailTrace(a + 1, retries)

EveryConnectFails ==
    \A i \in DOMAIN trace :
        trace[i].op \in { "scan", "connect" } =>
            trace[i].data = (IF trace[i].op = "scan" THEN << 1 >> ELSE << 0 >>)

(***************************************************************************)
(* C5: if every connect attempt fails (every scan finding the device),     *)
(* upload fails with the connection-failure error after exactly            *)
(* connect_retries connect attempts and exactly connect_retries - 1 retry  *)
(* sleeps, none after the last attempt, and never writes a command.        *)
(***************************************************************************)
C5_AllConnectsFail ==
    (Over /\ EveryConnectFails)
    => /\ exc.kind = E_CONNECT
       /\ trace = AllFailTrace(1, connect_retries)
       /\ Count(trace, "connect") = connect_retries
       /\ Count(trace, "sleep") = (IF connect_retries = 0 THEN 0 ELSE connect_retries - 1)
       /\ Count(trace, "write") = 0

C5_Witness ==
    /\ Over
    /\ EveryConnectFails
    /\ connect_retries >= 2
    /\ Count(trace, "connect") = connect_retries
    /\ Last(trace).op = "connect"
    /\ exc.kind = E_CONNECT

\* The main loop has dispatched UPLOAD_COMPLETE or DATA_PRESENT.
TerminalDispatched ==
    \E i \in DOMAIN dispatched :
        parse_cmd(dispatched[i]).id \in { RSP_UPLOAD_COMPLETE, RSP_DATA_PRESENT }

(***************************************************************************)
(* C6: upload returns successfully if and only if the main loop dispatched *)
(* UPLOAD_COMPLETE or DATA_PRESENT; in that case TRANSFER_COMPLETE is      *)
(* written exactly once and is the last command written; otherwise         *)
(* TRANSFER_COMPLETE is never written.                                     *)
(***************************************************************************)
C6_SuccessIffTerminalDispatched ==
    /\ Over => (exc = NoError <=> TerminalDispatched)
    /\ TerminalDispatched =>
          /\ CountCmd(CMD_TRANSFER_COMPLETE) = 1
          /\ Last(Tx(trace)) = P_TRANSFER_COMPLETE
    /\ ~TerminalDispatched => CountCmd(CMD_TRANSFER_COMPLETE) = 0

\* Success on an UPLOAD_COMPLETE that arrived while a part awaited its ack.
C6_Witness ==
    /\ Over
    /\ exc = NoError
    /\ parse_cmd(Last(dispatched)).id = RSP_UPLOAD_COMPLETE
    /\ CountCmd(CMD_SEND_BLOCK_PART) >= 1
    /\ Last(Tx(trace)) = P_TRANSFER_COMPLETE

\* trace[i] is a notification that has been captured by _wait_ready_ack or
\* _send_part_wait_ack and is about to be dispatched by the main loop.
Captured(i) ==
    /\ i = Len(trace)
    /\ pc = "main"
    /\ pending_raw = << trace[i].data >>

(***************************************************************************)
(* C7: a BLOCK_REQUEST whose block id is at or beyond total_blocks aborts  *)
(* upload with the out-of-range protocol violation, and nothing is written *)
(* in response to it (no ACK_READY, no SEND_BLOCK_PART); for an empty      *)
(* image no BLOCK_REQUEST is ever acknowledged.                            *)
(***************************************************************************)
C7_OutOfRangeBlockRejected ==
    /\ \A i \in DOMAIN trace :
          LET rsp_payload == parse_cmd(trace[i].data).payload
          IN  ( /\ IsNote(trace[i], RSP_BLOCK_REQUEST)
                /\ Len(rsp_payload) >= 17
                /\ rsp_payload[10] >= total_blocks )
              => \/ Captured(i)
                 \/ AbortedAt(i) /\ exc = Error(E_RANGE, rsp_payload[10])
    /\ image = 0 =>
          /\ CountCmd(CMD_ACK_READY) = 0
          /\ CountCmd(CMD_SEND_BLOCK_PART) = 0

\* The first block past the end of a one-block image, requested while a part
\* of block 0 awaited its acknowledgment.
C7_Witness ==
    /\ Over
    /\ total_blocks = 1
    /\ exc = Error(E_RANGE, 1)
    /\ Len(trace) >= 3
    /\ trace[Len(trace) - 1] = Ev("notified", SUB_WAIT_TIMEOUT_S, F_BR1)
    /\ IsWrite(trace[Len(trace) - 2], CMD_SEND_BLOCK_PART)

(***************************************************************************)
(* C8: a BLOCK_REQUEST with a payload shorter than 17 bytes aborts upload  *)
(* with the invalid-payload protocol violation and nothing is written      *)
(* after it (no ACK_READY), whether the main wait received it or the       *)
(* ready-ack or part-ack wait captured it as a deferred event.             *)
(***************************************************************************)
C8_ShortBlockRequestRejected ==
    \A i \in DOMAIN trace :
        ( /\ IsNote(trace[i], RSP_BLOCK_REQUEST)
          /\ Len(parse_cmd(trace[i].data).payload) < 17 )
        => \/ Captured(i)
           \/ AbortedAt(i) /\ exc = Error(E_PAYLOAD, 0)

\* A 16-byte request captured by the ready-ack wait.
C8_Witness ==
    /\ Over
    /\ exc = Error(E_PAYLOAD, 0)
    /\ Len(trace) >= 3
    /\ trace[Len(trace) - 1] = Ev("notified", SUB_WAIT_TIMEOUT_S, F_BR_SHORT)
    /\ trace[Len(trace) - 2] = Ev("write", 0, P_ACK_READY)

(***************************************************************************)
(* C9: RSP_ERROR (0xFFFF) received at the main wait, the ready-ack wait or *)
(* the part-ack wait aborts upload with the protocol error: no command is  *)
(* written after it and upload does not return successfully.               *)
(***************************************************************************)
C9_ErrorFrameAborts ==
    \A i \in DOMAIN trace :
        IsNote(trace[i], RSP_ERROR) =>
            /\ AbortedAt(i)
            /\ exc = Error(E_PROTOCOL, 0)

\* RSP_ERROR in answer to ACK_READY.
C9_Witness ==
    /\ Over
    /\ exc = Error(E_PROTOCOL, 0)
    /\ Len(trace) >= 3
    /\ trace[Len(trace) - 1] = Ev("notified", SUB_WAIT_TIMEOUT_S, F_ERROR)
    /\ trace[Len(trace) - 2] = Ev("write", 0, P_ACK_READY)

(***************************************************************************)
(* C10: a timeout of the main wait, the ready-ack wait or the part-ack     *)
(* wait is fatal: nothing is resent or retried, no command is written      *)
(* after it, and the timeout error reaches the caller after disconnect.    *)
(***************************************************************************)
C10_TimeoutIsFatal ==
    \A i \in DOMAIN trace :
        trace[i].op = "timeout" =>
            /\ AbortedAt(i)
            /\ exc = Error(E_TIMEOUT, 0)

\* The acknowledgment of a block part never arrives.
C10_Witness ==
    /\ Over
    /\ exc = Error(E_TIMEOUT, 0)
    /\ Len(trace) >= 3
    /\ trace[Len(trace) - 1] = Ev("timeout", SUB_WAIT_TIMEOUT_S, << >>)
    /\ IsWrite(trace[Len(trace) - 2], CMD_SEND_BLOCK_PART)
    /\ Last(trace).op = "disconnect"

\* The acquisition loop ran out of attempts: upload raised before its try block.
Exhausted == Over /\ exc.kind = E_CONNECT

(***************************************************************************)
(* C11 as stated: the error raised when the retry budget is exhausted      *)
(* carries the error of the most recent failed attempt, in every           *)
(* exhausting run: also when every attempt was a scan miss, and when       *)
(* connect failures were followed only by scan misses.  (An attempt's      *)
(* error is identified by the attempt's number; the most recent failed     *)
(* attempt of an exhausting run is attempt connect_retries.)               *)
(***************************************************************************)
C11_CarriesMostRecentFailure ==
    (Exhausted /\ connect_retries >= 1) => exc.info = connect_retries

\* What the error carries instead: the latest connect exception, None (0)
\* when no connect call failed.
C11_CarriesLatestConnectError ==
    Exhausted =>
        LET failed == { i \in DOMAIN trace :
                          trace[i].op = "connect" /\ trace[i].data = << 0 >> }
            scansUpTo(i) == Cardinality({ j \in 1..i : trace[j].op = "scan" })
        IN  \/ failed = {} /\ exc.info = 0
            \/ \E i \in failed :
                  /\ \A j \in failed : j <= i
                  /\ exc.info = scansUpTo(i)

\* A connect failure at attempt 1, then a scan miss at attempt 2.
C11_Witness ==
    /\ Exhausted
    /\ connect_retries = 2
    /\ exc.info = 1
    /\ Last(trace) = Ev("scan", SCAN_DURATION_MS, << 0 >>)

NoScanMatched ==
    /\ Count(trace, "scan") = connect_retries
    /\ \A i \in DOMAIN trace :
          \/ trace[i].op = "scan" /\ trace[i].data = << 0 >>
          \/ trace[i].op = "sleep"

(***************************************************************************)
(* C12 as stated: when the retry budget is exhausted because no scan ever  *)
(* matched the target address, upload fails with an outcome of another     *)
(* kind than the connection failure raised when connect attempts are       *)
(* exhausted.                                                              *)
(***************************************************************************)
C12_DiscoveryTimeoutDistinct ==
    (Over /\ connect_retries >= 1 /\ NoScanMatched)
    => /\ exc # NoError
       /\ exc.kind # E_CONNECT

C12_Witness ==
    /\ Over
    /\ connect_retries >= 2
    /\ NoScanMatched
    /\ exc = Error(E_CONNECT, 0)

\* trace[i] is a failed lookup of the service or of the characteristic.
SetupLookupFailed(i) ==
    /\ trace[i].op \in { "service", "characteristic" }
    /\ trace[i].data = << 0 >>

(***************************************************************************)
(* C13: if the service or the characteristic is not found after            *)
(* connecting, upload fails with the corresponding error after             *)
(* disconnecting once: session setup is not retried, no second connection  *)
(* is made, and no command is written (no START_DATA_TRANSFER).            *)
(***************************************************************************)
C13_SetupFailureIsFatal ==
    \A i \in DOMAIN trace :
        SetupLookupFailed(i) =>
            /\ AbortedAt(i)
            /\ exc = Error(IF trace[i].op = "service" THEN E_SERVICE
                                                       ELSE E_CHARACTERISTIC, 0)
            /\ Count(trace, "write") = 0
            /\ Count(trace, "disconnect") = 1
            /\ Count(trace, trace[i].op) = 1
            /\ Cardinality({ j \in DOMAIN trace :
                               trace[j].op = "connect" /\ trace[j].data = << 1 >> }) = 1

C13_Witness ==
    /\ Over
    /\ exc = Error(E_CHARACTERISTIC, 0)
    /\ Len(trace) >= 2
    /\ trace[Len(trace) - 1] = Ev("characteristic", 0, << 0 >>)
    /\ Last(trace).op = "disconnect"

\* upload is scanning, connecting or between attempts: it holds no connection.
Acquiring == pc \in { "start", "scan", "sleep_miss", "connect", "sleep_fail" }

(***************************************************************************)
(* C14: across the repeated upload attempts of the scheduling loop at most *)
(* one connection is open at any time, and no scan or connect of a later   *)
(* attempt starts while a connection of an earlier attempt is still open.  *)
(* (Checked under SpecLoop.)                                               *)
(***************************************************************************)
C14_OneConnectionAtATime ==
    /\ opened - closed \in { 0, 1 }
    /\ Acquiring => opened = closed

\* The second attempt holds a connection after the first one's was closed.
C14_Witness ==
    /\ update_attempt = 1
    /\ opened = 2
    /\ closed = 1
    /\ pc = "main"

(***************************************************************************)
(* C15: parse_cmd(cmd_packet(id, payload)) returns (id, payload) for every *)
(* id in [0, 65535] and every payload, the empty one included.  (Checked   *)
(* under SpecCodec.)                                                       *)
(***************************************************************************)
C15_CmdPacketRoundTrip ==
    codec.fn = "parse_cmd(cmd_packet)" =>
        /\ codec.out.id = codec.args[1]
        /\ codec.out.payload = codec.args[2]

\* The largest id with an empty payload.
C15_Witness ==
    /\ codec.fn = "parse_cmd(cmd_packet)"
    /\ codec.args = << 65535, << >> >>
    /\ codec.out = [id |-> 65535, payload |-> << >>]

(***************************************************************************)
(* C16: parse_cmd returns (None, empty payload) when the notification is   *)
(* absent or shorter than 2 bytes; otherwise the id is byte 0 * 256 +      *)
(* byte 1 and the payload the remaining bytes.  (Checked under SpecCodec.) *)
(***************************************************************************)
C16_ParseCmd ==
    codec.fn = "parse_cmd" =>
        LET notification == codec.args[1]
        IN  IF notification = None \/ Len(notification) < 2
            THEN codec.out = [id |-> NoneId, payload |-> << >>]
            ELSE /\ codec.out.id = notification[1] * 256 + notification[2]
                 /\ Len(codec.out.payload) = Len(notification) - 2
                 /\ \A i \in 1..(Len(notification) - 2) :
                       codec.out.payload[i] = notification[i + 2]

\* An id whose two bytes differ, with a payload behind it.
C16_Witness ==
    /\ codec.fn = "parse_cmd"
    /\ codec.args = << << 1, 2, 3, 4 >> >>
    /\ codec.out = [id |-> 258, payload |-> << 3, 4 >>]

\* The byte count of block block_id of an image of n bytes.
PayloadLength(n, block_id) ==
    IF n <= block_id * BLOCK_DATA_SIZE THEN 0
    ELSE Min(BLOCK_DATA_SIZE, n - block_id * BLOCK_DATA_SIZE)

(***************************************************************************)
(* C17: for every image and block id, the 4-byte header of the wrapped     *)
(* block holds, little-endian, the exact length of the block's payload     *)
(* (4096, less for the final block, 0 past the end of the image) and the   *)
(* sum of the payload's bytes modulo 65536; neither field covers the       *)
(* header, and the payload follows it.  (Checked under SpecCodec.)         *)
(***************************************************************************)
C17_WrappedBlockHeader ==
    codec.fn = "wrapped" =>
        LET n == codec.args[1]
            block_id == codec.args[2]
            length == PayloadLength(n, block_id)
            first == block_id * BLOCK_DATA_SIZE
            total == SumRange(ImageBytes(n), first + 1, first + length)
            out == codec.out
        IN  /\ Len(out) = 4 + length
            /\ out[1] + 256 * out[2] = length
            /\ out[3] + 256 * out[4] = total % 65536
            /\ \A i \in 1..4 : out[i] \in 0..255
            /\ \A i \in 1..length : out[4 + i] = ImageBytes(n)[first + i]

\* A full block whose byte sum exceeds 16 bits.
C17_Witness ==
    /\ codec.fn = "wrapped"
    /\ codec.args = << BLOCK_DATA_SIZE + 1, 0 >>
    /\ codec.out[1] + 256 * codec.out[2] = BLOCK_DATA_SIZE
    /\ SumRange(ImageBytes(BLOCK_DATA_SIZE + 1), 1, BLOCK_DATA_SIZE) >= 65536

(***************************************************************************)
(* C18: build_block_part returns exactly 233 bytes for every image, block  *)
(* id and part id in 0..17; byte 0 is the sum modulo 256 of bytes 1..232   *)
(* (block id, part id and the 230-byte fragment), also for parts that are  *)
(* partly or wholly zero padding.  (Checked under SpecCodec.)              *)
(***************************************************************************)
C18_BlockPartLengthAndChecksum ==
    codec.fn = "build_block_part" =>
        LET out == codec.out
        IN  /\ Len(out) = BLOCK_PART_DATA_SIZE + 3
            /\ \A i \in DOMAIN out : out[i] \in 0..255
            /\ out[1] = SumRange(out, 2, Len(out)) % 256
            /\ out[2] = codec.args[2] % 256
            /\ out[3] = codec.args[3]

\* The last part of a full block: 190 bytes of the block, then 40 of padding,
\* with a byte sum beyond 8 bits.
C18_Witness ==
    /\ codec.fn = "build_block_part"
    /\ codec.args = << BLOCK_DATA_SIZE, 0, PARTS_PER_BLOCK - 1 >>
    /\ Len(codec.out) = 233
    /\ codec.out[193] = ImageBytes(BLOCK_DATA_SIZE)[BLOCK_DATA_SIZE]
    /\ \A i \in 194..233 : codec.out[i] = 0
    /\ SumRange(codec.out, 2, 233) >= 256

\* Bit bit_index of a byte.
BitSet(byte, bit_index) == byte % (2 ^ (bit_index + 1)) >= 2 ^ bit_index

(***************************************************************************)
(* C19: requested_parts_from_mask returns, strictly ascending and without  *)
(* duplicates, exactly the indices i in 0..17 whose bit (i mod 8) of byte  *)
(* (i div 8) is set; bits 18..47 never contribute and an index whose byte  *)
(* is missing from a short mask is unset, without error; [5,0,0,0,0,0]     *)
(* gives [0,2] and six 0xFF bytes give [0..17].  (Checked under SpecCodec.)*)
(***************************************************************************)
C19_RequestedPartsFromMask ==
    codec.fn = "requested_parts_from_mask" =>
        LET mask_bytes == codec.args[1]
            parts == codec.out
        IN  /\ \A i \in 1..(Len(parts) - 1) : parts[i] < parts[i + 1]
            /\ { parts[i] : i \in DOMAIN parts } =
                  { i \in 0..17 : /\ i \div 8 < Len(mask_bytes)
                                  /\ BitSet(mask_bytes[(i \div 8) + 1], i % 8) }
            /\ mask_bytes = << 5, 0, 0, 0, 0, 0 >> => parts = << 0, 2 >>
            /\ mask_bytes = << 255, 255, 255, 255, 255, 255 >> =>
                  parts = [i \in 1..18 |-> i - 1]

\* Only bits 18..47 are set: no part is requested.
C19_Witness ==
    /\ codec.fn = "requested_parts_from_mask"
    /\ codec.args = << << 0, 0, 252, 255, 255, 255 >> >>
    /\ codec.out = << >>

(***************************************************************************)
(* C20: the block count that validates block ids equals ceil(N / 4096) for *)
(* the image lengths N = 0, 1, 4095, 4096, 4097, 12289 (0, 1, 1, 1, 2, 4   *)
(* blocks), so a block id is accepted exactly when block_id * 4096 < N.    *)
(* (Checked under SpecCodec.)                                              *)
(***************************************************************************)
C20_TotalBlocksIsCeiling ==
    codec.fn = "total_blocks" =>
        LET n == codec.args[1]
            blocks == codec.out
        IN  /\ n \in { 0, 1, 4095, 4096, 4097, 12289 }
            /\ << n, blocks >> \in { << 0, 0 >>, << 1, 1 >>, << 4095, 1 >>, << 4096, 1 >>,
                                     << 4097, 2 >>, << 12289, 4 >> }
            /\ \A block_id \in 0..5 :
                  ~OutOfRange(block_id, blocks) <=> block_id * BLOCK_DATA_SIZE < n

C20_Witness ==
    /\ codec.fn = "total_blocks"
    /\ codec.args = << 4096 >>
    /\ codec.out = 1
    /\ OutOfRange(1, codec.out)


(***************************************************************************)
(* C21: the announcement of make_avail_data_info                           *)
(***************************************************************************)
\* binascii.crc32 of the image of each length, as 4 little-endian bytes.
ImageCrc32 ==
    [n \in AvailLengths |->
        CASE n = 0 -> << 0, 0, 0, 0 >>
          [] n = 1 -> << 91, 38, 185, 9 >>
          [] n = 5 -> << 135, 231, 134, 81 >>
          [] n = BLOCK_DATA_SIZE -> << 68, 44, 196, 163 >>
          [] n = BLOCK_DATA_SIZE + 1 -> << 226, 149, 22, 197 >>]

\* The 4 little-endian bytes of a length below 2^16.
LengthField(n) == << n % 256, n \div 256, 0, 0 >>

AnnouncementCall == codec.fn = "make_avail_data_info"

\* C21 as stated: the announcement is exactly 17 bytes and consists of the
\* marker 0xFF, the 8-byte CRC slot, the 4-byte length, the data-type tag and
\* 2 reserved zero bytes.
C21_Original ==
    AnnouncementCall =>
        LET n == codec.args[1]
            data_type == codec.args[2]
        IN  /\ Len(codec.out) = 17
            /\ codec.out = << 255 >> \o ImageCrc32[n] \o << 0, 0, 0, 0 >>
                               \o LengthField(n) \o << data_type >> \o << 0, 0 >>

\* C21: the announcement is exactly 17 bytes: the marker 0xFF, the 8-byte
\* little-endian slot holding the 32-bit CRC of the image with its upper 4
\* bytes zero, the 4-byte little-endian image length, the data-type tag, and
\* 3 zero bytes (a 1-byte field and a 2-byte field).
C21_AnnouncementLayout ==
    AnnouncementCall =>
        LET n == codec.args[1]
            data_type == codec.args[2]
            out == codec.out
        IN  /\ Len(out) = 17
            /\ out[1] = 255
            /\ << out[2], out[3], out[4], out[5] >> = ImageCrc32[n]
            /\ << out[6], out[7], out[8], out[9] >> = << 0, 0, 0, 0 >>
            /\ << out[10], out[11], out[12], out[13] >> = LengthField(n)
            /\ out[14] = data_type
            /\ << out[15], out[16], out[17] >> = << 0, 0, 0 >>

C21_Witness ==
    /\ AnnouncementCall
    /\ codec.args = << BLOCK_DATA_SIZE + 1, DEFAULT_DATA_TYPE >>
    /\ codec.out = << 255, 226, 149, 22, 197, 0, 0, 0, 0, 1, 16, 0, 0, 33, 0, 0, 0 >>


(***************************************************************************)
(* Vocabulary of the waits                                                 *)
(***************************************************************************)
NoteId(e) == parse_cmd(e.data).id

IsDeferredNote(e) ==
    e.op = "notified"
    /\ NoteId(e) \in { RSP_BLOCK_REQUEST, RSP_UPLOAD_COMPLETE, RSP_DATA_PRESENT }

\* A notification that ends neither wait and fails nothing there.
IsPassedOver(e) ==
    e.op = "notified"
    /\ NoteId(e) \notin { RSP_COMMAND_ACK, RSP_BLOCK_REQUEST, RSP_UPLOAD_COMPLETE,
                          RSP_DATA_PRESENT, RSP_ERROR }

\* trace[j] was read by the ready-ack wait that follows the ACK_READY at h.
InReadyWaitOf(h, j) ==
    /\ h < j
    /\ IsWrite(trace[h], CMD_ACK_READY)
    /\ \A q \in (h + 1)..(j - 1) : IsPassedOver(trace[q])

InReadyWait(j) == \E h \in 1..(j - 1) : InReadyWaitOf(h, j)

\* The wait goes on after trace[j]: the next transport event, if any, is the
\* result of another 10 s wait.
SubWaitGoesOn(j, at) ==
    IF j = Len(trace)
    THEN pc = at
    ELSE trace[j + 1].op \in { "notified", "timeout" } /\ trace[j + 1].arg = SUB_WAIT_TIMEOUT_S

(***************************************************************************)
(* C22: after ACK_READY a SEND_BLOCK_PART is written only when a           *)
(* COMMAND_ACK was read in the ready-ack wait; a PART_ACK or PART_ERROR    *)
(* read there is skipped (the wait goes on, nothing is written); and when  *)
(* BLOCK_REQUEST, UPLOAD_COMPLETE or DATA_PRESENT is read there first, no  *)
(* part is sent until another ACK_READY has been written.                  *)
(***************************************************************************)
C22_PartsOnlyAfterCommandAck ==
    /\ \A k \in DOMAIN trace :
          IsWrite(trace[k], CMD_SEND_BLOCK_PART) =>
              \E h \in 1..(k - 1), m \in 1..(k - 1) :
                  /\ IsWrite(trace[h], CMD_ACK_READY)
                  /\ \A q \in (h + 1)..(k - 1) : ~IsWrite(trace[q], CMD_ACK_READY)
                  /\ InReadyWaitOf(h, m)
                  /\ IsNote(trace[m], RSP_COMMAND_ACK)
    /\ \A j \in DOMAIN trace :
          (trace[j].op = "notified" /\ InReadyWait(j)) =>
              /\ (IsNote(trace[j], RSP_PART_ACK) \/ IsNote(trace[j], RSP_PART_ERROR))
                     => SubWaitGoesOn(j, "ready_wait")
              /\ IsDeferredNote(trace[j]) =>
                     \A k \in (j + 1)..Len(trace) :
                         IsWrite(trace[k], CMD_SEND_BLOCK_PART) =>
                             \E h \in (j + 1)..(k - 1) : IsWrite(trace[h], CMD_ACK_READY)

\* Stale PART_ACK and PART_ERROR are skipped, COMMAND_ACK releases the first part.
C22_Witness ==
    \E h \in DOMAIN trace :
        /\ h + 4 <= Len(trace)
        /\ IsWrite(trace[h], CMD_ACK_READY)
        /\ IsNote(trace[h + 1], RSP_PART_ACK)
        /\ IsNote(trace[h + 2], RSP_PART_ERROR)
        /\ IsNote(trace[h + 3], RSP_COMMAND_ACK)
        /\ IsWrite(trace[h + 4], CMD_SEND_BLOCK_PART)


(***************************************************************************)
(* C23: a BLOCK_REQUEST, UPLOAD_COMPLETE or DATA_PRESENT captured inside a *)
(* ready-ack or part-ack wait is the very next event the main loop         *)
(* dispatches, and no notification is read between capture and dispatch:   *)
(* while a frame is pending it is the latest transport event, and the      *)
(* frames dispatched so far, with the pending one, are exactly the frames  *)
(* read by the 20 s wait of the main loop and the deferred frames read by  *)
(* the 10 s waits, in the order they were read.                            *)
(***************************************************************************)
\* Frames that are due for dispatch, in the order the transport delivered them.
DispatchDue ==
    LET due == SelectSeq(trace, LAMBDA e :
                   /\ e.op = "notified"
                   /\ \/ e.arg = MAIN_WAIT_TIMEOUT_S
                      \/ e.arg = SUB_WAIT_TIMEOUT_S /\ IsDeferredNote(e))
    IN  [i \in 1..Len(due) |-> due[i].data]

C23_CapturedDispatchedNext ==
    /\ dispatched \o pending_raw = DispatchDue
    /\ pending_raw # << >> =>
          /\ pc = "main"
          /\ IsDeferredNote(Last(trace))
          /\ Last(trace).arg = SUB_WAIT_TIMEOUT_S
          /\ Last(trace).data = pending_raw[1]
    /\ \A j \in DOMAIN trace :
          (IsDeferredNote(trace[j]) /\ trace[j].arg = SUB_WAIT_TIMEOUT_S /\ j < Len(trace))
              => trace[j + 1].op \in { "write", "disconnect" }

\* An UPLOAD_COMPLETE captured by a part-ack wait has been dispatched.
C23_Witness ==
    /\ pending_raw = << >>
    /\ Len(dispatched) >= 2
    /\ Last(dispatched) = F_UPLOAD_COMPLETE
    /\ \E j \in 2..(Len(trace) - 1) :
          /\ IsNote(trace[j], RSP_UPLOAD_COMPLETE)
          /\ trace[j].arg = SUB_WAIT_TIMEOUT_S
          /\ \E w \in 1..(j - 1) :
                /\ IsWrite(trace[w], CMD_SEND_BLOCK_PART)
                /\ \A q \in (w + 1)..(j - 1) : trace[q].op = "notified"
          /\ trace[j + 1].data = P_TRANSFER_COMPLETE


(***************************************************************************)
(* Part exchanges in the trace                                             *)
(***************************************************************************)
IsSend(e) == IsWrite(e, CMD_SEND_BLOCK_PART)

\* trace[s] is the first write of a part exchange: a SEND_BLOCK_PART that does
\* not answer a PART_ERROR.
ExchangeStart(s) ==
    /\ IsSend(trace[s])
    /\ ~IsNote(trace[s - 1], RSP_PART_ERROR)

\* trace[s..e] lies within the exchange started at s: after the first write
\* come only notifications that do not end the exchange and the writes that
\* answer them.
WithinExchange(s, e) ==
    \A q \in (s + 1)..e :
        \/ IsSend(trace[q])
        \/ /\ trace[q].op = "notified"
           /\ NoteId(trace[q]) \notin { RSP_PART_ACK, RSP_BLOCK_REQUEST, RSP_UPLOAD_COMPLETE,
                                        RSP_DATA_PRESENT, RSP_ERROR }

SendsIn(s, e) == Cardinality({ q \in s..e : IsSend(trace[q]) })
PartErrorsIn(s, e) == Cardinality({ q \in s..e : IsNote(trace[q], RSP_PART_ERROR) })

(***************************************************************************)
(* C24: within one part exchange the number of SEND_BLOCK_PART writes is 1 *)
(* plus the number of PART_ERROR notifications read in it, whatever that   *)
(* number; a COMMAND_ACK or an unrecognized notification is followed by no *)
(* write; and every write of the exchange carries the same 233-byte frame. *)
(***************************************************************************)
C24_OneResendPerPartError ==
    \A s \in 2..Len(trace) :
        ExchangeStart(s) =>
            \A e \in s..Len(trace) :
                WithinExchange(s, e) =>
                    /\ IF IsNote(trace[e], RSP_PART_ERROR)
                       THEN e < Len(trace) /\ trace[e + 1] = trace[s]
                       ELSE SendsIn(s, e) = 1 + PartErrorsIn(s, e)
                    /\ IsSend(trace[e]) =>
                          /\ trace[e] = trace[s]
                          /\ Len(trace[e].data) = 2 + 233
                    /\ ( /\ trace[e].op = "notified"
                         /\ NoteId(trace[e]) # RSP_PART_ERROR )
                          => SubWaitGoesOn(e, "part_wait")

\* A part refused three times and written four times, a COMMAND_ACK and an
\* unrecognized frame having arrived in between.
C24_Witness ==
    \E s \in 2..Len(trace), e \in 2..Len(trace) :
        /\ s < e
        /\ ExchangeStart(s)
        /\ WithinExchange(s, e)
        /\ PartErrorsIn(s, e) = 3
        /\ SendsIn(s, e) = 4
        /\ \E q \in s..e : IsNote(trace[q], RSP_COMMAND_ACK)
        /\ \E q \in s..e : trace[q].op = "notified" /\ trace[q].data = F_UNKNOWN


\* trace[j] was read by the part-ack wait of the SEND_BLOCK_PART at w.
InPartWaitOf(w, j) ==
    /\ w < j
    /\ IsSend(trace[w])
    /\ \A q \in (w + 1)..(j - 1) :
          trace[q].op = "notified" /\ NoteId(trace[q]) \notin { RSP_PART_ACK, RSP_PART_ERROR }

\* The engine acts on the frame captured at j: it is pending at the head of
\* the main loop, or its dispatch is the next transport event.
ActsOnCaptured(j) ==
    IF j = Len(trace)
    THEN pc = "main" /\ pending_raw = << trace[j].data >>
    ELSE IF NoteId(trace[j]) = RSP_BLOCK_REQUEST
    THEN \/ trace[j + 1].data = P_ACK_READY
         \/ AbortedAt(j) /\ exc.kind \in { E_PAYLOAD, E_RANGE }
    ELSE trace[j + 1].data = P_TRANSFER_COMPLETE

(***************************************************************************)
(* C25: when BLOCK_REQUEST, UPLOAD_COMPLETE or DATA_PRESENT is read during *)
(* the exchange of a requested part, no further part of that request is    *)
(* sent (a later SEND_BLOCK_PART comes only after another ACK_READY, for   *)
(* the block of the request read last), and the engine next acts on the    *)
(* captured frame.                                                         *)
(***************************************************************************)
C25_DeferredEndsTheBlock ==
    \A j \in DOMAIN trace :
        (IsDeferredNote(trace[j]) /\ \E w \in 1..(j - 1) : InPartWaitOf(w, j)) =>
            /\ ActsOnCaptured(j)
            /\ \A k \in (j + 1)..Len(trace) :
                  IsSend(trace[k]) =>
                      /\ \E h \in (j + 1)..(k - 1) : IsWrite(trace[h], CMD_ACK_READY)
                      /\ BlockOf(trace[k].data) = ServedRequest(k)[10]

\* Block 1 is requested while part 3 of block 0 is exchanged: part 4 of block
\* 0 is never sent, parts of block 1 are.
C25_Witness ==
    /\ \E w \in DOMAIN trace :
          /\ w + 1 < Len(trace)
          /\ IsSend(trace[w])
          /\ BlockOf(trace[w].data) = 0
          /\ PartOf(trace[w].data) = 3
          /\ trace[w + 1].op = "notified"
          /\ trace[w + 1].data = F_BR1
          /\ \E k \in (w + 2)..Len(trace) :
                IsSend(trace[k]) /\ BlockOf(trace[k].data) = 1
    /\ \A k \in DOMAIN trace :
          IsSend(trace[k]) => ~(BlockOf(trace[k].data) = 0 /\ PartOf(trace[k].data) = 4)


(***************************************************************************)
(* Requests served without interruption                                    *)
(***************************************************************************)
\* The part indices 0..17 whose bit is set in a mask, as a set.
MaskParts(mask) ==
    { p \in 0..(PARTS_PER_BLOCK - 1) :
        (p \div 8) + 1 <= Len(mask) /\ BitSet(mask[(p \div 8) + 1], p % 8) }

\* The k-th smallest element of a set of numbers.
Nth(S, k) == CHOOSE p \in S : Cardinality({ q \in S : q < p }) = k - 1

\* The first n parts of the request acknowledged at h were each sent at its
\* turn and acknowledged by a PART_ACK: ACK_READY, COMMAND_ACK, then n pairs.
ServedInTurn(h, n) ==
    /\ h + 1 + 2 * n <= Len(trace)
    /\ IsWrite(trace[h], CMD_ACK_READY)
    /\ IsNote(trace[h + 1], RSP_COMMAND_ACK)
    /\ \A q \in 1..n : IsSend(trace[h + 2 * q]) /\ IsNote(trace[h + 2 * q + 1], RSP_PART_ACK)

\* After trace[j] the engine is at the main wait: it waits there now, or the
\* next transport event is the result of a 20 s wait.
MainWaitNext(j) ==
    IF j = Len(trace)
    THEN pc = "main" /\ pending_raw = << >>
    ELSE trace[j + 1].op \in { "notified", "timeout" } /\ trace[j + 1].arg = MAIN_WAIT_TIMEOUT_S

(***************************************************************************)
(* C26: a BLOCK_REQUEST served without interruption (COMMAND_ACK answers   *)
(* ACK_READY, PART_ACK answers every part) has exactly the parts set in    *)
(* its mask among 0..17 sent, in ascending order, each built from the      *)
(* requested block; after the last PART_ACK the engine waits for the next  *)
(* notification.  With an empty mask that is right after the COMMAND_ACK,  *)
(* with no SEND_BLOCK_PART.                                                *)
(***************************************************************************)
C26_ServesExactlyTheMask ==
    \A h \in DOMAIN trace :
        ServedInTurn(h, 0) =>
            LET req == ServedRequest(h)
                block == req[10]
                parts == MaskParts(Slice(req, 11, 17))
                count == Cardinality(parts)
            IN  /\ \A k \in 1..count :
                      ServedInTurn(h, k - 1) =>
                          /\ h + 2 * k <= Len(trace)
                          /\ trace[h + 2 * k].data =
                                 cmd_packet(CMD_SEND_BLOCK_PART,
                                            BlockPartTable[image][block][Nth(parts, k)])
                /\ ServedInTurn(h, count) => MainWaitNext(h + 1 + 2 * count)

\* Parts 3 and 4 of block 1 served in turn, the engine back at the main wait.
C26_Witness ==
    \E h \in DOMAIN trace :
        /\ ServedInTurn(h, 2)
        /\ ServedRequest(h) = parse_cmd(F_BR1).payload
        /\ BlockOf(trace[h + 2].data) = 1 /\ PartOf(trace[h + 2].data) = 3
        /\ BlockOf(trace[h + 4].data) = 1 /\ PartOf(trace[h + 4].data) = 4
        /\ MainWaitNext(h + 5)
        /\ h + 5 < Len(trace)

\* An empty-mask request acknowledged, no part sent, the next notification
\* read by the main wait.
C26_EmptyMaskServed ==
    \E h \in DOMAIN trace :
        /\ ServedInTurn(h, 0)
        /\ ServedRequest(h) = parse_cmd(F_BR0_NONE).payload
        /\ h + 2 <= Len(trace)
        /\ trace[h + 2].op = "notified"
        /\ trace[h + 2].arg = MAIN_WAIT_TIMEOUT_S
        /\ CountCmd(CMD_SEND_BLOCK_PART) = 0


(***************************************************************************)
(* C27: in the main loop a COMMAND_ACK, PART_ACK, PART_ERROR, an           *)
(* unrecognized id or a malformed frame (id None) makes the engine write   *)
(* no command and leaves the completed flag and the pending event as they  *)
(* were; the engine is back at the main wait.                              *)
(***************************************************************************)
\* Ids the main loop has a branch with an effect for.
ActedOnIds == { RSP_BLOCK_REQUEST, RSP_UPLOAD_COMPLETE, RSP_DATA_PRESENT, RSP_ERROR }

\* This step reads, at the main wait, a frame the main loop has no effect for.
MainReadsIdleFrame ==
    /\ pc = "main"
    /\ pending_raw = << >>
    /\ Len(trace') > Len(trace)
    /\ trace'[Len(trace) + 1].op = "notified"
    /\ NoteId(trace'[Len(trace) + 1]) \notin ActedOnIds

C27_IdleFramesChangeNothing ==
    [][ MainReadsIdleFrame =>
          /\ trace' = Append(trace, Ev("notified", MAIN_WAIT_TIMEOUT_S, Last(trace').data))
          /\ pc' = "main"
          /\ UNCHANGED << completed, pending_raw, exc, req_block_id, req_parts >> ]_vars

\* The main loop has read a one-byte frame and a PART_ERROR and waits again.
C27_Witness ==
    /\ pc = "main"
    /\ pending_raw = << >>
    /\ ~completed
    /\ Len(trace) >= 3
    /\ Last(trace) = Ev("notified", MAIN_WAIT_TIMEOUT_S, F_PART_ERROR)
    /\ trace[Len(trace) - 1] = Ev("notified", MAIN_WAIT_TIMEOUT_S, F_MALFORMED)
    /\ trace[Len(trace) - 2].data = P_START


(***************************************************************************)
(* Consecutive SEND_BLOCK_PART writes                                      *)
(***************************************************************************)
ConsecutiveSends(a, b) ==
    /\ a < b
    /\ IsSend(trace[a])
    /\ IsSend(trace[b])
    /\ \A q \in (a + 1)..(b - 1) : ~IsSend(trace[q])

\* A notification the part-ack wait reads on without resending.
IsReadOnByPartWait(e) ==
    e.op = "notified"
    /\ NoteId(e) \notin { RSP_PART_ACK, RSP_PART_ERROR, RSP_BLOCK_REQUEST,
                          RSP_UPLOAD_COMPLETE, RSP_DATA_PRESENT, RSP_ERROR }

\* Between a and b only notifications that neither end nor fail the part-ack
\* wait were read, and then the one at b - 1.
OnlyPassedOverBetween(a, b) == \A q \in (a + 1)..(b - 2) : IsReadOnByPartWait(trace[q])

\* b resends the part of a after a PART_ERROR.
ResentAfterError(a, b) ==
    /\ IsNote(trace[b - 1], RSP_PART_ERROR)
    /\ OnlyPassedOverBetween(a, b)
    /\ trace[b] = trace[a]

\* b is the next requested part of the request of a, after the PART_ACK of a.
NextPartAfterAck(a, b) ==
    /\ IsNote(trace[b - 1], RSP_PART_ACK)
    /\ OnlyPassedOverBetween(a, b)
    /\ LET parts == MaskParts(Slice(ServedRequest(a), 11, 17))
           later == { p \in parts : p > PartOf(trace[a].data) }
       IN  /\ later # { }
           /\ PartOf(trace[b].data) = Nth(later, 1)
           /\ BlockOf(trace[b].data) = BlockOf(trace[a].data)

\* A BLOCK_REQUEST was read after a, ACK_READY was written for it and
\* COMMAND_ACK read in its ready-ack wait; b is the first part of that request.
FreshHandshake(a, b) ==
    \E r \in (a + 1)..(b - 3) :
        /\ IsNote(trace[r], RSP_BLOCK_REQUEST)
        /\ IsWrite(trace[r + 1], CMD_ACK_READY)
        /\ InReadyWaitOf(r + 1, b - 1)
        /\ IsNote(trace[b - 1], RSP_COMMAND_ACK)
        /\ LET req == parse_cmd(trace[r].data).payload
               parts == MaskParts(Slice(req, 11, 17))
           IN  /\ parts # { }
               /\ PartOf(trace[b].data) = Nth(parts, 1)
               /\ BlockOf(trace[b].data) = req[10]

(***************************************************************************)
(* C28: the engine never has two commands outstanding: no command is       *)
(* written right after another, and between two consecutive                *)
(* SEND_BLOCK_PART writes the engine has read a PART_ERROR (the second     *)
(* write resends the same part), or a PART_ACK (the second write is the    *)
(* next requested part of the same request), or a BLOCK_REQUEST followed   *)
(* by a fresh ACK_READY / COMMAND_ACK handshake (the second write is the   *)
(* first part of that request).                                            *)
(***************************************************************************)
C28_OneCommandOutstanding ==
    /\ \A i \in 1..(Len(trace) - 1) : ~(trace[i].op = "write" /\ trace[i + 1].op = "write")
    /\ \A a \in DOMAIN trace :
          IsSend(trace[a]) =>
              \A b \in (a + 1)..Len(trace) :
                  ConsecutiveSends(a, b) =>
                      \/ ResentAfterError(a, b)
                      \/ NextPartAfterAck(a, b)
                      \/ FreshHandshake(a, b)

\* Part 3 of block 0 is interrupted by the request of block 1; the next part
\* written is part 3 of block 1, after the handshake.
C28_Witness ==
    \E a \in DOMAIN trace, b \in DOMAIN trace :
        /\ ConsecutiveSends(a, b)
        /\ trace[a + 1].data = F_BR1
        /\ FreshHandshake(a, b)
        /\ BlockOf(trace[a].data) = 0
        /\ BlockOf(trace[b].data) = 1

\* Block 1 is requested after both parts of block 0 were acknowledged.
C28_NextRequestAfterLastAck ==
    \E a \in DOMAIN trace, b \in DOMAIN trace :
        /\ ConsecutiveSends(a, b)
        /\ IsNote(trace[a + 1], RSP_PART_ACK)
        /\ trace[a + 2] = Ev("notified", MAIN_WAIT_TIMEOUT_S, F_BR1)
        /\ FreshHandshake(a, b)


(***************************************************************************)
(* C29: session setup runs in the order exchange_mtu(247), service,        *)
(* characteristic, subscribe, settle delay; START_DATA_TRANSFER carrying   *)
(* the announcement is the first command written, it is written only after *)
(* the subscription and the settle delay, and it is written once per       *)
(* upload: never twice, and once before any notification is read.          *)
(***************************************************************************)
\* The transport calls from a successful connect to the first command.
SetupCalls ==
    << Ev("connect", CONNECT_TIMEOUT_MS, << 1 >>),
       Ev("exchange_mtu", 247, << >>),
       Ev("service", 0, << 1 >>),
       Ev("characteristic", 0, << 1 >>),
       Ev("subscribe", 0, << >>),
       Ev("sleep", 300, << >>) >>

\* START_DATA_TRANSFER carrying the announcement of the image.
StartCall == Ev("write", 0, cmd_packet(CMD_START_DATA_TRANSFER, AvailTable[image]))

SetupOps == { "exchange_mtu", "service", "characteristic", "subscribe" }

C29_SetupOrderAndSingleStart ==
    /\ \A i \in DOMAIN trace :
          \* each setup call, the settle delay and START follow their predecessor
          /\ \A k \in 2..Len(SetupCalls) :
                ( /\ trace[i].op = SetupCalls[k].op
                  /\ trace[i].op = "sleep" => trace[i].arg = 300 )
                => /\ i > 1
                   /\ trace[i - 1] = SetupCalls[k - 1]
                   /\ trace[i].arg = SetupCalls[k].arg
                   /\ trace[i].op \in { "sleep", "subscribe", "exchange_mtu" }
                         => trace[i] = SetupCalls[k]
          /\ IsWrite(trace[i], CMD_START_DATA_TRANSFER) =>
                /\ i > 1
                /\ trace[i - 1] = SetupCalls[6]
                /\ trace[i] = StartCall
          \* any other command and any notification come after START
          /\ (trace[i].op \in { "write", "notified", "timeout" }
                 /\ ~IsWrite(trace[i], CMD_START_DATA_TRANSFER))
                => \E s \in 1..(i - 1) : IsWrite(trace[s], CMD_START_DATA_TRANSFER)
    /\ CountCmd(CMD_START_DATA_TRANSFER) <= 1
    /\ \A op \in SetupOps : Count(trace, op) <= 1
    /\ (Over /\ exc = NoError) => CountCmd(CMD_START_DATA_TRANSFER) = 1

\* A finished upload whose transport calls begin with the whole setup.
C29_Witness ==
    /\ Over
    /\ exc = NoError
    /\ Len(trace) >= 8
    /\ SubSeq(trace, 2, 8) = Append(SetupCalls, StartCall)
    /\ CountCmd(CMD_START_DATA_TRANSFER) = 1


(***************************************************************************)
(* Device acquisition in the trace                                         *)
(***************************************************************************)
IsScanMiss(e) == e.op = "scan" /\ e.data = << 0 >>
IsScanHit(e) == e.op = "scan" /\ e.data = << 1 >>
IsFailedConnect(e) == e.op = "connect" /\ e.data = << 0 >>

\* Attempts used up to position i: scan misses plus connect attempts.
AttemptsUsed(i) ==
    Cardinality({ q \in 1..i : IsScanMiss(trace[q]) \/ trace[q].op = "connect" })

IsRetryDelay(e) == e = Ev("sleep", 1200, << >>)

(***************************************************************************)
(* C30: every scan miss and every failed connect consumes one attempt:     *)
(* scan misses plus connect attempts never exceed connect_retries, and the *)
(* attempt under way is one more than those; a miss or a failed connect    *)
(* that is not the last attempt is followed by exactly one retry delay and *)
(* then a scan (the device handle is gone after a failed connect); after   *)
(* the last attempt there is no delay, upload raises.                      *)
(***************************************************************************)
C30_AttemptsAreConsumed ==
    /\ AttemptsUsed(Len(trace)) <= connect_retries
    /\ pc \in { "scan", "connect" } => attempt = AttemptsUsed(Len(trace)) + 1
    /\ \A i \in DOMAIN trace :
          /\ (IsScanMiss(trace[i]) \/ IsFailedConnect(trace[i])) =>
                IF AttemptsUsed(i) < connect_retries
                THEN /\ i = Len(trace) => pc \in { "sleep_miss", "sleep_fail" }
                     /\ i < Len(trace) => IsRetryDelay(trace[i + 1])
                     /\ i + 1 = Len(trace) => pc = "scan" /\ ~device
                     /\ i + 1 < Len(trace) => trace[i + 2].op = "scan"
                ELSE /\ i = Len(trace)
                     /\ Over
                     /\ exc.kind = E_CONNECT
          /\ IsRetryDelay(trace[i]) =>
                i > 1 /\ (IsScanMiss(trace[i - 1]) \/ IsFailedConnect(trace[i - 1]))
          /\ trace[i].op = "connect" => i > 1 /\ IsScanHit(trace[i - 1])

\* Two attempts: a failed connect, the delay, a scan that misses, the error.
C30_Witness ==
    /\ connect_retries = 2
    /\ Len(trace) = 4
    /\ IsScanHit(trace[1])
    /\ IsFailedConnect(trace[2])
    /\ IsRetryDelay(trace[3])
    /\ IsScanMiss(trace[4])
    /\ Over
    /\ exc.kind = E_CONNECT


(***************************************************************************)
(* C31: every SEND_BLOCK_PART frame written carries a block id below       *)
(* total_blocks and a part id in 0..17, whatever the device has sent.      *)
(***************************************************************************)
C31_SentPartsInRange ==
    \A k \in DOMAIN trace :
        IsSend(trace[k]) =>
            /\ BlockOf(trace[k].data) < total_blocks
            /\ PartOf(trace[k].data) \in 0..17

\* Part 4 of block 1, the last block of the two-block image, has been sent.
C31_Witness ==
    /\ total_blocks = 2
    /\ Len(trace) >= 1
    /\ IsSend(Last(trace))
    /\ BlockOf(Last(trace).data) = 1
    /\ PartOf(Last(trace).data) = 4


(***************************************************************************)
(* The transfer loop of the standalone script (writeimg.py, upload_image   *)
(* with wait_ready_ack and send_part_wait_ack), as a function from the     *)
(* state of the loop and the result of the wait it is suspended at to the  *)
(* state at its next wait.  The script's codec functions are those of the  *)
(* module, byte for byte.                                                  *)
(***************************************************************************)
\* wait_ready_ack: the if chain on rsp_cmd.
writeimg_wait_ready_ack(rsp_cmd) ==
    IF rsp_cmd = RSP_COMMAND_ACK THEN "return_none"
    ELSE IF rsp_cmd \in { RSP_BLOCK_REQUEST, RSP_UPLOAD_COMPLETE, RSP_DATA_PRESENT }
    THEN "return_raw"
    ELSE IF rsp_cmd \in { RSP_PART_ACK, RSP_PART_ERROR } THEN "continue"
    ELSE IF rsp_cmd = RSP_ERROR THEN "raise"
    ELSE "ignore"

\* send_part_wait_ack with COMMAND_ACK ending the exchange like PART_ACK.
writeimg_send_part_wait_ack_on_any_ack(rsp_cmd) ==
    IF rsp_cmd \in { RSP_PART_ACK, RSP_COMMAND_ACK } THEN "return_none"
    ELSE IF rsp_cmd = RSP_PART_ERROR THEN "break"
    ELSE IF rsp_cmd \in { RSP_BLOCK_REQUEST, RSP_UPLOAD_COMPLETE, RSP_DATA_PRESENT }
    THEN "return_raw"
    ELSE IF rsp_cmd = RSP_ERROR THEN "raise"
    ELSE "ignore"

\* send_part_wait_ack: the if chain on rsp_cmd.
writeimg_send_part_wait_ack(rsp_cmd) ==
    IF rsp_cmd = RSP_PART_ACK THEN "return_none"
    ELSE IF rsp_cmd = RSP_PART_ERROR THEN "break"
    ELSE IF rsp_cmd = RSP_COMMAND_ACK THEN "continue"
    ELSE IF rsp_cmd \in { RSP_BLOCK_REQUEST, RSP_UPLOAD_COMPLETE, RSP_DATA_PRESENT }
    THEN "return_raw"
    ELSE IF rsp_cmd = RSP_ERROR THEN "raise"
    ELSE "ignore"

\* upload_image: the if/elif chain of the main loop on rsp_cmd.
writeimg_upload_image_branch(rsp_cmd) ==
    IF rsp_cmd = RSP_BLOCK_REQUEST THEN "block_request"
    ELSE IF rsp_cmd = RSP_UPLOAD_COMPLETE THEN "upload_complete"
    ELSE IF rsp_cmd = RSP_DATA_PRESENT THEN "data_present"
    ELSE IF rsp_cmd = RSP_COMMAND_ACK THEN "pass"
    ELSE IF rsp_cmd \in { RSP_PART_ACK, RSP_PART_ERROR } THEN "pass"
    ELSE IF rsp_cmd = RSP_ERROR THEN "raise"
    ELSE "print"

\* send_cmd(ch, cmd_id, payload) in loop state s.
writeimg_send_cmd(s, cmd_id, payload) ==
    [s EXCEPT !.writes = Append(@, cmd_packet(cmd_id, payload))]

\* An exception leaves upload_image.
writeimg_raise(s, e) == [s EXCEPT !.at = "done", !.outcome = e]

\* upload_image up to its first wait: START_DATA_TRANSFER is written.
writeimg_upload_image_start(n) ==
    [at |-> "main", completed |-> FALSE, pending_raw |-> << >>,
     total_blocks |-> TotalBlocks(ImageBytes(n)),
     req_block_id |-> 0, req_parts |-> << >>, part_pos |-> 0, block_part |-> << >>,
     writes |-> << cmd_packet(CMD_START_DATA_TRANSFER, AvailTable[n]) >>,
     outcome |-> NoError]


\* "for part_id in req_parts" at position pos: build and send the part, or
\* fall out of the loop to the head of the main loop.
writeimg_parts_loop(s, pos, n) ==
    IF pos <= Len(s.req_parts)
    THEN LET part == BlockPartTable[n][s.req_block_id][s.req_parts[pos]]
         IN  [writeimg_send_cmd(s, CMD_SEND_BLOCK_PART, part)
                 EXCEPT !.part_pos = pos, !.block_part = part, !.at = "part_wait"]
    ELSE [s EXCEPT !.at = "main"]

\* One iteration of the main loop of upload_image once raw is known.
writeimg_upload_image_iteration(s, raw) ==
    LET rsp_cmd == parse_cmd(raw).id
        rsp_payload == parse_cmd(raw).payload
        branch == writeimg_upload_image_branch(rsp_cmd)
    IN  IF branch = "block_request"
        THEN IF Len(rsp_payload) < 17
             THEN writeimg_raise(s, Error(E_PAYLOAD, 0))
             ELSE LET t == [s EXCEPT !.req_block_id = rsp_payload[10],
                                     !.req_parts = requested_parts_from_mask(
                                                       Slice(rsp_payload, 11, 17))]
                  IN  IF t.req_block_id >= t.total_blocks
                      THEN writeimg_raise(t, Error(E_RANGE, t.req_block_id))
                      ELSE [writeimg_send_cmd(t, CMD_ACK_READY, << >>)
                               EXCEPT !.at = "ready_wait"]
        ELSE IF branch \in { "upload_complete", "data_present" }
        THEN [writeimg_send_cmd(s, CMD_TRANSFER_COMPLETE, << >>)
                 EXCEPT !.completed = TRUE, !.at = "done"]
        ELSE IF branch = "raise"
        THEN writeimg_raise(s, Error(E_PROTOCOL, 0))
        ELSE [s EXCEPT !.at = "main"]

\* The loop takes raw from pending_raw instead of waiting.
writeimg_take_pending(s) ==
    writeimg_upload_image_iteration([s EXCEPT !.pending_raw = << >>], s.pending_raw[1])

\* The wait the loop is suspended at returns notification raw.
writeimg_notified(s, raw, n) ==
    LET rsp_cmd == parse_cmd(raw).id
    IN  IF s.at = "main"
        THEN writeimg_upload_image_iteration(s, raw)
        ELSE IF s.at = "ready_wait"
        THEN LET class == writeimg_wait_ready_ack(rsp_cmd)
             IN  IF class = "return_none"
                 THEN writeimg_parts_loop([s EXCEPT !.pending_raw = << >>], 1, n)
                 ELSE IF class = "return_raw"
                 THEN [s EXCEPT !.pending_raw = << raw >>, !.at = "main"]
                 ELSE IF class = "raise"
                 THEN writeimg_raise(s, Error(E_PROTOCOL, 0))
                 ELSE s
        ELSE LET class == writeimg_send_part_wait_ack(rsp_cmd)
             IN  IF class = "return_none"
                 THEN writeimg_parts_loop([s EXCEPT !.pending_raw = << >>], s.part_pos + 1, n)
                 ELSE IF class = "break"
                 THEN writeimg_send_cmd(s, CMD_SEND_BLOCK_PART, s.block_part)
                 ELSE IF class = "return_raw"
                 THEN [s EXCEPT !.pending_raw = << raw >>, !.at = "main"]
                 ELSE IF class = "raise"
                 THEN writeimg_raise(s, Error(E_PROTOCOL, 0))
                 ELSE s

\* asyncio.wait_for raises TimeoutError out of wait_notification.
writeimg_timeout(s) == writeimg_raise(s, Error(E_TIMEOUT, 0))

\* upload_image run on an image of n bytes against a sequence of wait
\* results (notified frames and timeouts), from result i on.
RECURSIVE writeimg_run(_, _, _, _)
writeimg_run(s, results, i, n) ==
    IF s.at = "done" THEN s
    ELSE IF s.at = "main" /\ s.pending_raw # << >>
    THEN writeimg_run(writeimg_take_pending(s), results, i, n)
    ELSE IF i > Len(results) THEN s
    ELSE IF results[i].op = "timeout"
    THEN writeimg_run(writeimg_timeout(s), results, i + 1, n)
    ELSE writeimg_run(writeimg_notified(s, results[i].data, n), results, i + 1, n)

writeimg_upload_image(n, results) ==
    writeimg_run(writeimg_upload_image_start(n), results, 1, n)


(***************************************************************************)
(* C32: the transfer loop of the script and the transfer loop of the       *)
(* module are equivalent: for the same image and the same sequence of      *)
(* notifications and timeouts they write the same sequence of commands and *)
(* end in the same outcome (success, or the same failure); at every wait   *)
(* in between they are in the same state of the loop.                      *)
(***************************************************************************)
\* The uploads whose session setup succeeds at the first attempt: what is
\* left to the environment is the notifications and the timeouts of the
\* transfer loop.
TransferInit ==
    /\ Init
    /\ connect_retries = 1

TransferNext ==
    \/ StartUpload
    \/ ScanHit
    \/ ConnectOk
    \/ ExchangeMtu
    \/ ServiceFound
    \/ CharacteristicFound
    \/ Subscribe
    \/ StartTransfer
    \/ MainNotified
    \/ MainPending
    \/ ReadyNotified
    \/ PartNotified
    \/ WaitTimeout
    \/ Disconnected

SpecTransfer == TransferInit /\ [][TransferNext]_vars

\* The results of the notification waits of this upload, in order.
WaitResults == SelectSeq(trace, LAMBDA e : e.op \in { "notified", "timeout" })

\* The transfer loop of the module has been entered.
TransferStarted == \E i \in DOMAIN trace : IsWrite(trace[i], CMD_START_DATA_TRANSFER)

\* The state of the module's transfer loop, in the terms of the script's.
TransferView ==
    [at |-> IF Ending THEN "done" ELSE pc,
     completed |-> completed, pending_raw |-> pending_raw, total_blocks |-> total_blocks,
     req_block_id |-> req_block_id, req_parts |-> req_parts, part_pos |-> part_pos,
     block_part |-> block_part, writes |-> Tx(trace), outcome |-> exc]

C32_TransferLoopsEquivalent ==
    (TransferStarted /\ pending_raw = << >>) =>
        writeimg_upload_image(image, WaitResults) = TransferView

\* Both loops served block 0, were interrupted by the request of block 1,
\* served it and ended in success.
C32_Witness ==
    /\ Over
    /\ exc = NoError
    /\ Rx(trace) = << F_BR0, F_COMMAND_ACK, F_BR1, F_COMMAND_ACK, F_PART_ACK,
                      F_PART_ACK, F_UPLOAD_COMPLETE >>
    /\ LET s == writeimg_upload_image(image, WaitResults)
       IN  /\ s.at = "done"
           /\ s.outcome = NoError
           /\ s.writes = Tx(trace)
           /\ Len(s.writes) = 7


(***************************************************************************)
(* Device acquisition of the standalone script (writeimg.py,               *)
(* run_update_cycle), as a function from the retry budget and the results  *)
(* of its scans and connects to the transport calls it makes and the state *)
(* it ends in.                                                             *)
(***************************************************************************)
\* The comparison with the budget off by one: a delay after the last attempt too.
writeimg_more_attempts_inclusive(a, retries) == a <= retries

\* attempt < CONNECT_RETRIES
writeimg_more_attempts(a, retries) == a < retries

\* device = await find_device(target_addr) before the loop is awaited.
writeimg_acquire_start ==
    [at |-> "scan", attempt |-> 0, device |-> FALSE, last_error |-> 0, ops |-> << >>]

\* The script arrives at the head of iteration a of
\* "for attempt in range(1, CONNECT_RETRIES + 1)" and runs to its next
\* result: a connect, or the rescan after the delay of a skipped attempt.
RECURSIVE writeimg_attempt(_, _, _)
writeimg_attempt(s, a, retries) ==
    IF a > retries
    THEN [s EXCEPT !.at = "exhausted"]
    ELSE IF ~s.device
    THEN IF writeimg_more_attempts(a, retries)
         THEN [s EXCEPT !.at = "scan", !.attempt = a,
                        !.ops = Append(@, Ev("sleep", DEFAULT_CONNECT_RETRY_DELAY_MS, << >>))]
         ELSE writeimg_attempt(s, a + 1, retries)
    ELSE [s EXCEPT !.at = "connect", !.attempt = a]

\* find_device returns (found or not): the loop goes to its next iteration.
writeimg_scanned(s, found, retries) ==
    writeimg_attempt([s EXCEPT !.device = found,
                               !.ops = Append(@, Ev("scan", SCAN_DURATION_MS,
                                                    << IF found THEN 1 ELSE 0 >>))],
                     s.attempt + 1, retries)

\* device.connect returns or raises.
writeimg_connected(s, ok, retries) ==
    LET t == [s EXCEPT !.ops = Append(@, Ev("connect", CONNECT_TIMEOUT_MS,
                                            << IF ok THEN 1 ELSE 0 >>))]
    IN  IF ok
        THEN [t EXCEPT !.at = "connected"]
        ELSE IF writeimg_more_attempts(s.attempt, retries)
        THEN [t EXCEPT !.last_error = s.attempt, !.at = "scan",
                       !.ops = Append(@, Ev("sleep", DEFAULT_CONNECT_RETRY_DELAY_MS, << >>))]
        ELSE writeimg_attempt([t EXCEPT !.last_error = s.attempt], s.attempt + 1, retries)

\* The acquisition run against a sequence of scan and connect results, from
\* result i on; a result of the kind the script is not waiting for is a
\* divergence.
RECURSIVE writeimg_acquire_run(_, _, _, _)
writeimg_acquire_run(s, results, i, retries) ==
    IF i > Len(results) THEN s
    ELSE IF s.at = "scan" /\ results[i].op = "scan"
    THEN writeimg_acquire_run(writeimg_scanned(s, results[i].data = << 1 >>, retries),
                              results, i + 1, retries)
    ELSE IF s.at = "connect" /\ results[i].op = "connect"
    THEN writeimg_acquire_run(writeimg_connected(s, results[i].data = << 1 >>, retries),
                              results, i + 1, retries)
    ELSE [s EXCEPT !.at = "diverged"]

writeimg_acquire(retries, results) ==
    writeimg_acquire_run(writeimg_acquire_start, results, 1, retries)


(***************************************************************************)
(* C33: for a retry budget of at least 1 and the same results of scans and *)
(* connects, the acquisition of the script and that of the module make the *)
(* same sequence of scan, connect and sleep calls and end alike: connected *)
(* on the same attempt, or exhausted with the same last error.             *)
(***************************************************************************)
\* The scan and connect results of this upload, and its acquisition calls.
AcquireResults == SelectSeq(trace, LAMBDA e : e.op \in { "scan", "connect" })

AcquireCalls ==
    SelectSeq(trace, LAMBDA e :
        e.op \in { "scan", "connect" } \/ (e.op = "sleep" /\ e.arg = 1200))

\* The module is between two acquisition calls, or acquisition has just ended.
AcquireSettled == pc \in { "scan", "connect", "mtu" } \/ exc.kind = E_CONNECT

C33_AcquisitionLoopsEquivalent ==
    (AcquireSettled /\ connect_retries >= 1) =>
        LET s == writeimg_acquire(connect_retries, AcquireResults)
        IN  /\ s.ops = AcquireCalls
            /\ pc = "scan" => s.at = "scan"
            /\ pc = "connect" => s.at = "connect" /\ s.attempt = attempt
            /\ pc = "mtu" => s.at = "connected" /\ s.attempt = attempt
            /\ exc.kind = E_CONNECT =>
                  s.at = "exhausted" /\ s.last_error = exc.info

\* Both connect on the second attempt, after a failed connect and a rescan.
C33_Witness ==
    /\ pc = "mtu"
    /\ connect_retries = 2
    /\ attempt = 2
    /\ LET s == writeimg_acquire(connect_retries, AcquireResults)
       IN  /\ s.at = "connected"
           /\ s.attempt = 2
           /\ s.ops = trace
           /\ Len(s.ops) = 5
           /\ s.ops[3] = Ev("sleep", 1200, << >>)

\* With a budget of 0 the script scans once before giving up, the module
\* makes no transport call.
C33_ZeroBudgetDiffers ==
    /\ connect_retries = 0
    /\ exc.kind = E_CONNECT
    /\ trace = << >>
    /\ writeimg_acquire(0, << [op |-> "scan", data |-> << 0 >>] >>).ops # << >>


(***************************************************************************)
(* Liveness: every transport call returns and every notification wait      *)
(* yields a notification or times out, so a step of upload that can be     *)
(* taken is eventually taken.  The device sends finitely many              *)
(* notifications: at most MaxEvents frames of its choice, or one of the    *)
(* scripts.  The image is the two-block one.                               *)
(***************************************************************************)
LiveInit ==
    /\ Init
    /\ image = BLOCK_DATA_SIZE + 1

SpecLive == LiveInit /\ [][Next]_vars /\ WF_vars(Next)

\* This step reads a PART_ERROR in a part-ack wait.
PartErrorRead ==
    /\ pc = "part_wait"
    /\ Len(trace') > Len(trace)
    /\ IsNote(trace'[Len(trace) + 1], RSP_PART_ERROR)

(***************************************************************************)
(* C34: every upload eventually terminates, in success or in failure, and  *)
(* has disconnected by then if it had connected, given that the calls      *)
(* return, the waits yield and the device sends finitely many              *)
(* notifications.  The resend on PART_ERROR is bounded by no counter: the  *)
(* step that reads a PART_ERROR and resends the part changes no variable   *)
(* of the engine, it only adds the notification and the write to the       *)
(* transport history.                                                      *)
(***************************************************************************)
C34_UploadTerminates ==
    /\ <>(Over /\ (Opened => Count(trace, "disconnect") = 1))
    /\ [][ PartErrorRead =>
             /\ trace' = trace \o << Ev("notified", SUB_WAIT_TIMEOUT_S, F_PART_ERROR),
                                     Ev("write", 0, cmd_packet(CMD_SEND_BLOCK_PART, block_part)) >>
             /\ UNCHANGED << pc, connect_retries, image, total_blocks, avail, attempt, device,
                             conn, last_error, completed, pending_raw, req_block_id,
                             req_parts, part_pos, block_part, dispatched, exc >> ]_vars

\* An upload that resent a part three times has terminated in success and
\* disconnected.
C34_Witness ==
    /\ Over
    /\ exc = NoError
    /\ Last(trace).op = "disconnect"
    /\ Cardinality({ i \in DOMAIN trace : IsNote(trace[i], RSP_PART_ERROR) }) = 3
    /\ CountCmd(CMD_SEND_BLOCK_PART) = 5


(***************************************************************************)
(* C35: the scheduling loop retries a failed update cycle a bounded number *)
(* of times.  upload is entered at most UPDATE_ATTEMPTS = 3 times per      *)
(* scheduled cycle: it is entered once at the start and once more only by  *)
(* a retry, which follows a failed attempt and counts it.  After an        *)
(* attempt that succeeded, and after the third that failed, the only step  *)
(* of the loop is to go on to the sleep until the next slot, from which no *)
(* further attempt of this cycle is made.  (Checked under SpecLoop.)       *)
(***************************************************************************)
UploadsEntered == update_attempt + 1

C35_BoundedRetries ==
    /\ [](UploadsEntered <= UPDATE_ATTEMPTS)
    /\ [][ /\ pc' = "start" =>
                /\ Over
                /\ exc # NoError
                /\ update_attempt' = update_attempt + 1
           /\ update_attempt' # update_attempt => pc' = "start"
           /\ (Over /\ (exc = NoError \/ UploadsEntered = UPDATE_ATTEMPTS)) =>
                /\ pc' = "next_slot"
                /\ update_attempt' = update_attempt
                /\ exc' = exc
           /\ pc # "next_slot" ]_vars

\* Three attempts each opened a connection and failed; the loop gave up.
C35_Witness ==
    /\ pc = "next_slot"
    /\ exc # NoError
    /\ update_attempt = UPDATE_ATTEMPTS - 1
    /\ opened = 3
    /\ closed = 3

\* The first attempt succeeded and none followed it.
C35_FirstSuccessEndsCycle ==
    /\ pc = "next_slot"
    /\ exc = NoError
    /\ update_attempt = 0


(***************************************************************************)
(* C36: at most one deferred event is pending at any time and it is never  *)
(* overwritten or dropped.  The pending slot is empty whenever a wait      *)
(* reads the transport, so a sub-wait that returns a captured event stores *)
(* it in an empty slot; every notification read is handled exactly once    *)
(* and in arrival order: one read by the main wait is dispatched in the    *)
(* same step, one read by a sub-wait is either consumed there (never       *)
(* dispatched) or captured and dispatched by the next step of the main     *)
(* loop, before anything else is read.                                     *)
(***************************************************************************)
InSubWait == pc \in { "ready_wait", "part_wait" }

\* This step read one notification from the transport.
NoteRead == Len(Rx(trace')) = Len(Rx(trace)) + 1

C36_PendingSlotDiscipline ==
    /\ [](/\ Len(pending_raw) <= 1
          /\ InSubWait => pending_raw = << >>
          /\ dispatched \o pending_raw = DispatchDue)
    /\ [][ /\ Len(Rx(trace')) <= Len(Rx(trace)) + 1
           /\ NoteRead =>
                /\ pending_raw = << >>
                /\ IF pc = "main"
                   THEN /\ dispatched' = Append(dispatched, Last(Rx(trace')))
                        /\ pending_raw' = << >>
                   ELSE /\ InSubWait
                        /\ dispatched' = dispatched
                        /\ pending_raw' =
                              IF parse_cmd(Last(Rx(trace'))).id \in
                                    { RSP_BLOCK_REQUEST, RSP_UPLOAD_COMPLETE, RSP_DATA_PRESENT }
                              THEN << Last(Rx(trace')) >>
                              ELSE << >>
           /\ ~NoteRead =>
                \/ /\ dispatched' = dispatched
                   /\ pending_raw' = pending_raw
                \/ /\ pc = "main"
                   /\ pending_raw # << >>
                   /\ dispatched' = Append(dispatched, pending_raw[1])
                   /\ pending_raw' = << >> ]_vars

\* A request captured by a sub-wait is pending; of the notifications read
\* before it, one was dispatched and one consumed by a sub-wait.
C36_Witness ==
    /\ pc = "main"
    /\ pending_raw = << F_BR1 >>
    /\ dispatched = << F_BR0 >>
    /\ Len(Rx(trace)) = 3


(***************************************************************************)
(* C37: the device handle is never carried from one attempt of the         *)
(* acquisition loop to the next.  An attempt starts with no handle held    *)
(* and with a scan, so the scans made equal the attempts started: the k-th *)
(* scan is made in attempt k; and every connect call directly follows a    *)
(* scan hit of its own attempt.                                            *)
(***************************************************************************)
ScansUpTo(i) == Cardinality({ q \in 1..i : trace[q].op = "scan" })

\* Attempts of the acquisition loop started so far (the loop variable).
AttemptsStarted == attempt

C37_EveryAttemptScans ==
    /\ pc = "scan" => ~device
    /\ pc = "connect" => device /\ IsScanHit(Last(trace))
    /\ pc # "start" =>
          ScansUpTo(Len(trace)) =
              IF pc = "scan" THEN AttemptsStarted - 1 ELSE AttemptsStarted
    /\ \A i \in DOMAIN trace :
          /\ trace[i].op = "scan" => ScansUpTo(i) = AttemptsUsed(i - 1) + 1
          /\ trace[i].op = "connect" =>
                /\ i > 1
                /\ IsScanHit(trace[i - 1])
                /\ ScansUpTo(i) = AttemptsUsed(i)

\* The first attempt found the device and failed to connect; the second
\* scanned again and connected.
C37_Witness ==
    /\ connect_retries = 2
    /\ attempt = 2
    /\ pc = "mtu"
    /\ ScansUpTo(Len(trace)) = 2
    /\ IsFailedConnect(trace[2])
    /\ IsScanHit(trace[4])


(***************************************************************************)
(* C38: the ACK_READY commands written are as many as the BLOCK_REQUESTs   *)
(* that passed validation at their dispatch by the main loop (payload of   *)
(* at least 17 bytes, block id below total_blocks); each ACK_READY is      *)
(* written right after its request was read and before every               *)
(* SEND_BLOCK_PART of that request; no ACK_READY or SEND_BLOCK_PART is     *)
(* written before START_DATA_TRANSFER or after TRANSFER_COMPLETE.          *)
(***************************************************************************)
\* raw is a BLOCK_REQUEST that the main loop accepts.
PassesValidation(raw) ==
    /\ Len(raw) >= 2 + 17
    /\ raw[1] * 256 + raw[2] = RSP_BLOCK_REQUEST
    /\ raw[2 + 10] < total_blocks

ValidRequestsDispatched ==
    Cardinality({ i \in DOMAIN dispatched : PassesValidation(dispatched[i]) })

IsAckReady(e) == IsWrite(e, CMD_ACK_READY)

\* The ACK_READY at h answers the request under which the part at k is sent.
AckReadyOf(h, k) ==
    /\ h < k
    /\ IsAckReady(trace[h])
    /\ \A q \in (h + 1)..(k - 1) :
          ~IsAckReady(trace[q]) /\ ~IsNote(trace[q], RSP_BLOCK_REQUEST)

C38_AckReadyPerValidRequest ==
    /\ CountCmd(CMD_ACK_READY) = ValidRequestsDispatched
    /\ \A i \in DOMAIN trace :
          /\ IsAckReady(trace[i]) =>
                /\ i > 1
                /\ trace[i - 1].op = "notified"
                /\ PassesValidation(trace[i - 1].data)
          /\ IsSend(trace[i]) =>
                \E h \in 2..(i - 1) :
                    /\ AckReadyOf(h, i)
                    /\ BlockOf(trace[i].data) = trace[h - 1].data[2 + 10]
          /\ (IsAckReady(trace[i]) \/ IsSend(trace[i])) =>
                /\ \E s \in 1..(i - 1) : IsWrite(trace[s], CMD_START_DATA_TRANSFER)
                /\ \A c \in 1..(i - 1) : ~IsWrite(trace[c], CMD_TRANSFER_COMPLETE)

\* Two valid requests were acknowledged, parts of both were sent, and the
\* transfer was completed.
C38_Witness ==
    /\ CountCmd(CMD_ACK_READY) = 2
    /\ ValidRequestsDispatched = 2
    /\ CountCmd(CMD_SEND_BLOCK_PART) >= 3
    /\ CountCmd(CMD_TRANSFER_COMPLETE) = 1
    /\ Over

\* A request for a block the image does not have was dispatched after one
\* that was served: it is not acknowledged.
C38_RejectedRequestNotAcknowledged ==
    /\ Len(dispatched) = 2
    /\ ValidRequestsDispatched = 1
    /\ CountCmd(CMD_ACK_READY) = 1
    /\ exc.kind = E_RANGE


(***************************************************************************)
(* C39: servicing keeps no record of what was delivered.  The commands     *)
(* written in response to a BLOCK_REQUEST, from its ACK_READY to the end   *)
(* of its servicing, are a function of the request's payload, the image    *)
(* and the notifications read while it is serviced: ServiceWrites below,   *)
(* which has no other argument, yields exactly the commands in the trace,  *)
(* whatever was requested or sent before.  The same block and parts can be *)
(* requested and sent again, and an upload can succeed without every block *)
(* or part having been sent (the witnesses).                               *)
(***************************************************************************)
\* trace[q] belongs to the servicing of a request: a part written, or the
\* result of a 10 s wait.
IsServicing(e) ==
    \/ IsSend(e)
    \/ e.op \in { "notified", "timeout" } /\ e.arg = SUB_WAIT_TIMEOUT_S

\* The servicing that starts with the ACK_READY at h extends to position e.
ServicingEnd(h) ==
    CHOOSE e \in h..Len(trace) :
        /\ \A q \in (h + 1)..e : IsServicing(trace[q])
        /\ e < Len(trace) => ~IsServicing(trace[e + 1])

ServicingNotes(h) == Rx(SubSeq(trace, h, ServicingEnd(h)))
ServicingWrites(h) == Tx(SubSeq(trace, h, ServicingEnd(h)))

\* The SEND_BLOCK_PART command of the k-th part set in the mask.
ServiceFrame(n, block, parts, k) ==
    cmd_packet(CMD_SEND_BLOCK_PART, BlockPartTable[n][block][Nth(parts, k)])

\* What is written on notification id in a servicing that has written out
\* and is at the k-th requested part (k = 0: awaiting the ready
\* acknowledgment; "over": the servicing has ended).
ServiceStep(st, id, n, block, parts) ==
    IF st.over THEN st
    ELSE IF id \in { RSP_BLOCK_REQUEST, RSP_UPLOAD_COMPLETE, RSP_DATA_PRESENT, RSP_ERROR }
    THEN [st EXCEPT !.over = TRUE]
    ELSE IF st.k = 0
    THEN IF id # RSP_COMMAND_ACK THEN st
         ELSE IF parts = {} THEN [st EXCEPT !.over = TRUE]
         ELSE [st EXCEPT !.k = 1, !.out = Append(@, ServiceFrame(n, block, parts, 1))]
    ELSE IF id = RSP_PART_ERROR
    THEN [st EXCEPT !.out = Append(@, ServiceFrame(n, block, parts, st.k))]
    ELSE IF id # RSP_PART_ACK THEN st
    ELSE IF st.k = Cardinality(parts) THEN [st EXCEPT !.over = TRUE]
    ELSE [st EXCEPT !.k = st.k + 1,
                    !.out = Append(@, ServiceFrame(n, block, parts, st.k + 1))]

RECURSIVE ServiceFold(_, _, _, _, _, _)
ServiceFold(st, notes, i, n, block, parts) ==
    IF i > Len(notes) THEN st
    ELSE ServiceFold(ServiceStep(st, parse_cmd(notes[i]).id, n, block, parts),
                     notes, i + 1, n, block, parts)

\* The commands written while the request with payload req is serviced on
\* the image of n bytes and notes are read.
ServiceWrites(req, n, notes) ==
    ServiceFold([over |-> FALSE, k |-> 0, out |-> << P_ACK_READY >>],
                notes, 1, n, req[10], MaskParts(Slice(req, 11, 17))).out

C39_ServicingIsStateless ==
    \A h \in DOMAIN trace :
        IsAckReady(trace[h]) =>
            ServicingWrites(h) =
                ServiceWrites(parse_cmd(trace[h - 1].data).payload, image, ServicingNotes(h))

\* Parts 3 and 4 of block 0 were requested, sent and acknowledged twice, and
\* the upload of the two-block image succeeded with nothing else ever sent.
C39_Witness ==
    /\ Over
    /\ exc = NoError
    /\ total_blocks = 2
    /\ dispatched = << F_BR0, F_BR0, F_UPLOAD_COMPLETE >>
    /\ CountCmd(CMD_SEND_BLOCK_PART) = 4
    /\ \E h \in DOMAIN trace :
          /\ IsAckReady(trace[h])
          /\ \E g \in 1..(h - 1) :
                /\ IsAckReady(trace[g])
                /\ Len(ServicingWrites(g)) = 3
                /\ ServicingWrites(g) = ServicingWrites(h)

\* An upload of the two-block image succeeded with no part sent at all.
C39_SuccessWithoutAnyPart ==
    /\ Over
    /\ exc = NoError
    /\ total_blocks = 2
    /\ CountCmd(CMD_SEND_BLOCK_PART) = 0


(***************************************************************************)
(* C40: for every image and every block of it, the 230-byte fragments of   *)
(* parts 0..17 concatenated and cut to 4 + block length are the wrapped    *)
(* block (18 * 230 >= 4100: no wrapped byte is left out, and every byte    *)
(* past the wrapped data is zero), and the payloads of blocks              *)
(* 0..total_blocks-1 concatenated are the image.  (Checked under           *)
(* SpecCodec.)                                                             *)
(***************************************************************************)
\* Bytes 3..232 of a frame: the fragment after checksum, block id and part id.
Fragment(frame) == SubSeq(frame, 4, 3 + BLOCK_PART_DATA_SIZE)

\* The fragments of parts 0..17 one after the other.
Reassembled(frames) ==
    [i \in 1..(PARTS_PER_BLOCK * BLOCK_PART_DATA_SIZE) |->
        Fragment(frames[((i - 1) \div BLOCK_PART_DATA_SIZE) + 1])
            [((i - 1) % BLOCK_PART_DATA_SIZE) + 1]]

\* Bytes of block b (from 0) of an image of n bytes.
BlockLength(n, b) == Min(BLOCK_DATA_SIZE, n - b * BLOCK_DATA_SIZE)

RECURSIVE ConcatPayloads(_, _, _)
ConcatPayloads(blocks, n, b) ==
    IF b >= Len(blocks) THEN << >>
    ELSE SubSeq(Reassembled(blocks[b + 1]), 5, 4 + BlockLength(n, b))
             \o ConcatPayloads(blocks, n, b + 1)

C40_PartsReassemble ==
    codec.fn = "build_block_part*" =>
        LET n == codec.args[1]
            blocks == codec.out
        IN  /\ PARTS_PER_BLOCK * BLOCK_PART_DATA_SIZE >= 4 + BLOCK_DATA_SIZE
            /\ \A b \in 0..(Len(blocks) - 1) :
                  LET all == Reassembled(blocks[b + 1])
                      cut == 4 + BlockLength(n, b)
                  IN  /\ Len(blocks[b + 1]) = PARTS_PER_BLOCK
                      /\ \A p \in 1..PARTS_PER_BLOCK :
                            Len(blocks[b + 1][p]) = 3 + BLOCK_PART_DATA_SIZE
                      /\ SubSeq(all, 1, cut) = wrapped(ImageBytes(n), b)
                      /\ \A i \in (cut + 1)..Len(all) : all[i] = 0
            /\ ConcatPayloads(blocks, n, 0) = ImageBytes(n)

\* The image of three full blocks and one byte: four blocks are built, their
\* payloads make up the image, and the last byte of the first wrapped block,
\* which only part 17 carries, is not zero.
C40_Witness ==
    /\ codec.fn = "build_block_part*"
    /\ codec.args = << 3 * BLOCK_DATA_SIZE + 1 >>
    /\ Len(codec.out) = 4
    /\ Len(ConcatPayloads(codec.out, 3 * BLOCK_DATA_SIZE + 1, 0)) = 3 * BLOCK_DATA_SIZE + 1
    /\ Reassembled(codec.out[1])[4 + BLOCK_DATA_SIZE] # 0

====
